---------------------------- MODULE Spec2Model ----------------------------
(***************************************************************************)
(* Model of the nine-stage eBook generator (src/generate_ebook.py and      *)
(* src/llm_client.py).                                                     *)
(*                                                                         *)
(* Text is modelled as a sequence of one-character strings, so that the    *)
(* string operations of the code (strip, split, replace, regex matching)   *)
(* are computed character by character.  Three characters have names:      *)
(* the en dash U+2013, the em dash U+2014 and the tab.                     *)
(***************************************************************************)
EXTENDS Integers, Sequences, FiniteSets, TLC

VARIABLES
    outline,    \* the Stage-2 outline text handed to the extractor / Stage 3
    titles,     \* result of the last extract_chapter_titles(outline) call
    toc,        \* result of the last stage_3_toc(outline, _) call
    done,       \* which of the two calls have returned
    topic,      \* the topic main() builds the configuration from
    client,     \* llm_client: "none" (falsy), "mock" or "backend"
    reply,      \* outcome of the last call of the backend
    config,     \* the configuration mapping
    prior,      \* the configuration before the last apply_template_defaults
    template,   \* the template name of the last apply_template_defaults
    error,      \* the exception that ended the last operation, or "none"
    cpc,        \* where main() / the stage under test stands
    queries,    \* result of stage_1_seo_queries
    pc,         \* where execute_pipeline stands
    stages,     \* results['stages']: the outputs of the stages that returned
    files,      \* the output directory: file name -> content
    saved,      \* the configuration save_config wrote before the run
    cclient,    \* the llm_client argument of the running compile_ebook call
    llm,        \* the client whose stream_generate is called, and its API
    on_delta,   \* whether the caller of stream_generate supplied a sink
    events,     \* the events of the provider's stream not yet iterated
    full,       \* the list 'full' of a provider's stream_generate
    sink,       \* the fragments on_delta has been called with, in order
    calls,      \* the number of calls of generate
    result,     \* what stream_generate returned
    spc,        \* where the stream_generate call stands
    typed       \* what the user typed in the editor's last pass, where the
                \* editor is run on its own

extractVars == <<outline, titles, toc>>
configVars == <<topic, client, reply, config, prior, template, error, cpc>>
pipeVars == <<pc, stages, files, saved, cclient>>
streamVars == <<llm, on_delta, events, full, sink, calls, result, spc>>
vars == <<outline, titles, toc, done, topic, client, reply, config, prior,
          template, error, cpc, queries, pc, stages, files, saved, cclient,
          llm, on_delta, events, full, sink, calls, result, spc, typed>>

-----------------------------------------------------------------------------
(* Characters *)

EnDash == "endash"
EmDash == "emdash"
Tab == "\t"
NL == "\n"

\* Python's str.isspace / regex \s, restricted to the alphabet of the model
Whitespace == {" ", Tab, NL}

\* regex \d, restricted to ASCII digits
Digits == {"0", "1", "2", "3", "4", "5", "6", "7", "8", "9"}

\* str.lower() on one character (ASCII letters)
Lower(c) ==
    CASE c = "A" -> "a" [] c = "B" -> "b" [] c = "C" -> "c" [] c = "D" -> "d"
      [] c = "E" -> "e" [] c = "F" -> "f" [] c = "G" -> "g" [] c = "H" -> "h"
      [] c = "I" -> "i" [] c = "J" -> "j" [] c = "K" -> "k" [] c = "L" -> "l"
      [] c = "M" -> "m" [] c = "N" -> "n" [] c = "O" -> "o" [] c = "P" -> "p"
      [] c = "Q" -> "q" [] c = "R" -> "r" [] c = "S" -> "s" [] c = "T" -> "t"
      [] c = "U" -> "u" [] c = "V" -> "v" [] c = "W" -> "w" [] c = "X" -> "x"
      [] c = "Y" -> "y" [] c = "Z" -> "z"
      [] OTHER -> c

\* a sequence given as a function on 1..n, evaluated once into a tuple
Tuple(f) == f \o <<>>

LowerStr(s) == Tuple([i \in 1..Len(s) |-> Lower(s[i])])

-----------------------------------------------------------------------------
(* String helpers.  A value that is used more than once is passed on as an *)
(* operator argument, which is evaluated once.                             *)

SetMin(S) == CHOOSE x \in S : \A y \in S : x <= y
SetMax(S) == CHOOSE x \in S : \A y \in S : x >= y

\* number of consecutive characters of s after position p that belong to S
Span(s, p, S) ==
    IF p >= Len(s) THEN 0
    ELSE SetMin({k \in p..Len(s) : k = Len(s) \/ s[k + 1] \notin S}) - p

AllIn(s, S) == \A i \in 1..Len(s) : s[i] \in S

\* s[p+1 ..]
Drop(s, p) == SubSeq(s, p + 1, Len(s))

\* str.lstrip(chars) / str.rstrip(chars) / str.strip()
LStrip(s, S) == Drop(s, Span(s, 0, S))
RStrip(s, S) == SubSeq(s, 1, SetMax({0} \cup {k \in 1..Len(s) : s[k] \notin S}))
Strip(s) == RStrip(LStrip(s, Whitespace), Whitespace)

\* str.replace(a, b) for single characters
Replace(s, a, b) ==
    Tuple([i \in 1..Len(s) |-> IF s[i] = a THEN b ELSE s[i]])

\* the characters of s other than c
OtherChars(s, c) == {s[k] : k \in 1..Len(s)} \ {c}

\* str.split(sep) for a single-character separator: never empty, "" -> [""];
\* n is the length of the first piece
RECURSIVE Split(_, _)
SplitAt(s, sep, n) ==
    IF n = Len(s) THEN <<s>>
    ELSE <<SubSeq(s, 1, n)>> \o Split(Drop(s, n + 1), sep)
Split(s, sep) == SplitAt(s, sep, Span(s, 0, OtherChars(s, sep)))

\* str.splitlines(): like split on the line break, without the empty last piece
DropEmptyLast(parts) ==
    IF parts[Len(parts)] = <<>> THEN SubSeq(parts, 1, Len(parts) - 1)
    ELSE parts
splitlines(s) == DropEmptyLast(Split(s, NL))

\* sep.join(parts)
RECURSIVE Join(_, _)
Join(parts, sep) ==
    IF parts = <<>> THEN <<>>
    ELSE IF Len(parts) = 1 THEN parts[1]
    ELSE parts[1] \o sep \o Join(Tail(parts), sep)

\* str(i) for i >= 0
RECURSIVE Str(_)
Str(i) ==
    IF i < 10 THEN <<<<"0", "1", "2", "3", "4", "5", "6", "7", "8", "9">>[i + 1]>>
    ELSE Str(i \div 10) \o Str(i % 10)

-----------------------------------------------------------------------------
(* Heading Extractor: extract_chapter_titles *)

Word_chapter == <<"c", "h", "a", "p", "t", "e", "r">>

NoMatch == [matched |-> FALSE, num |-> <<>>, title |-> <<>>]

\* MarkerLen with the bullet alternative [-*]\s+ left out
MarkerLen_HashOnly(norm) ==
    IF Span(norm, 0, {"#"}) \in 2..6
       /\ Span(norm, Span(norm, 0, {"#"}), Whitespace) >= 1
    THEN Span(norm, 0, {"#"}) + Span(norm, Span(norm, 0, {"#"}), Whitespace)
    ELSE 0

\* The optional group (?:#{2,6}\s+|[-*]\s+)? at the start of the line: the
\* number of characters it consumes.  The group is greedy, and giving back
\* part of it never lets the literal 'Chapter' match (the character before
\* it would be '#', '-', '*' or whitespace), so the match is decided by the
\* longest prefix.
MarkerLen(norm) ==
    IF Span(norm, 0, {"#"}) \in 2..6
       /\ Span(norm, Span(norm, 0, {"#"}), Whitespace) >= 1
    THEN Span(norm, 0, {"#"}) + Span(norm, Span(norm, 0, {"#"}), Whitespace)
    ELSE IF norm # <<>> /\ norm[1] \in {"-", "*"}
            /\ Span(norm, 1, Whitespace) >= 1
    THEN 1 + Span(norm, 1, Whitespace)
    ELSE 0

\* re.match(r'^(?:#{2,6}\s+|[-*]\s+)?Chapter\s+(\d+)\s*[–-]\s*(.+)$', norm,
\* re.IGNORECASE), one operator per element of the pattern, each given the
\* position the elements before it have reached.  Every quantifier is
\* followed by a character class disjoint from its own, so the greedy choice
\* is the only one that can match.

\* (.+)$ after position p, which follows the separator's \s*
MatchTitle(norm, dS, dE, p) ==
    IF Len(norm) > p
    THEN [matched |-> TRUE, num |-> SubSeq(norm, dS + 1, dE),
          title |-> Drop(norm, p)]
    ELSE NoMatch

\* [–-]\s* at position p + 1
MatchSeparator(norm, dS, dE, p) ==
    IF Len(norm) > p /\ norm[p + 1] \in {EnDash, "-"}
    THEN MatchTitle(norm, dS, dE, p + 1 + Span(norm, p + 1, Whitespace))
    ELSE NoMatch

\* (\d+)\s* from position dS + 1, the digits ending at dE
MatchNumber(norm, dS, dE) ==
    IF dE > dS
    THEN MatchSeparator(norm, dS, dE, dE + Span(norm, dE, Whitespace))
    ELSE NoMatch

\* \s+ from position p + 1
MatchGap(norm, p, dS) ==
    IF dS > p THEN MatchNumber(norm, dS, dS + Span(norm, dS, Digits))
    ELSE NoMatch

\* the literal Chapter, ignoring case, after the first m characters
MatchWord(norm, m) ==
    IF Len(norm) >= m + 7
       /\ LowerStr(SubSeq(norm, m + 1, m + 7)) = Word_chapter
    THEN MatchGap(norm, m + 7, m + 7 + Span(norm, m + 7, Whitespace))
    ELSE NoMatch

MatchHeading(norm) == MatchWord(norm, MarkerLen(norm))

\* re.match(r'^\d+\.\d+', title), a being the length of the first \d+
SubNumberedAt(title, a) ==
    a >= 1 /\ Len(title) > a /\ title[a + 1] = "."
    /\ Span(title, a + 1, Digits) >= 1
IsSubNumbered(title) == SubNumberedAt(title, Span(title, 0, Digits))

\* m.group(2).strip().rstrip('.').strip()
CleanTitle(g) == Strip(RStrip(Strip(g), {"."}))

Skipped == [ok |-> FALSE, title |-> <<>>]

\* AcceptTitle without the test for section numeration
AcceptTitle_NoGuard(title) ==
    IF title # <<>> THEN [ok |-> TRUE, title |-> title] ELSE Skipped

\* 'if not re.match(r'^\d+\.\d+', title): if title ...'
AcceptTitle(title) ==
    IF ~IsSubNumbered(title) /\ title # <<>>
    THEN [ok |-> TRUE, title |-> title]
    ELSE Skipped

\* 'if m: title = ...'
TitleOfMatch(m) ==
    IF m.matched THEN AcceptTitle(CleanTitle(m.title)) ELSE Skipped

\* 'if not line: continue', then the normalisation of dashes and the match
TitleOfLine(line) ==
    IF line = <<>> THEN Skipped
    ELSE TitleOfMatch(MatchHeading(Replace(line, EmDash, EnDash)))

\* One pass of the loop body for one raw line: the title the line offers,
\* before the uniqueness test.  ok is FALSE when the line is skipped.
LineTitle(raw) == TitleOfLine(Strip(raw))

InSeq(x, s) == \E i \in 1..Len(s) : s[i] = x

\* AddTitle without the test 'title not in titles'
AddTitle_NoDedupe(acc, t) == IF t.ok THEN Append(acc, t.title) ELSE acc

\* 'if title and title not in titles: titles.append(title)'
AddTitle(acc, t) ==
    IF t.ok /\ ~InSeq(t.title, acc) THEN Append(acc, t.title) ELSE acc

\* the loop of extract_chapter_titles over the lines, titles being the
\* accumulator
RECURSIVE CollectTitles(_, _)
CollectTitles(lines, acc) ==
    IF lines = <<>> THEN acc
    ELSE CollectTitles(Tail(lines), AddTitle(acc, LineTitle(Head(lines))))

extract_chapter_titles(text) == CollectTitles(splitlines(text), <<>>)

-----------------------------------------------------------------------------
(* Stage 3: stage_3_toc *)

Txt_TocHeader ==
    <<"#", " ", "T", "a", "b", "l", "e", " ", "o", "f", " ",
      "C", "o", "n", "t", "e", "n", "t", "s">>

Txt_NoChapters ==
    <<"(", "O", "u", "t", "l", "i", "n", "e", " ", "p", "a", "r", "s", "i",
      "n", "g", " ", "f", "o", "u", "n", "d", " ", "n", "o", " ", "c", "h",
      "a", "p", "t", "e", "r", "s", ")">>

\* the lines f"{i}. {title}" for enumerate(titles, 1)
TocEntries(ts) ==
    Tuple([i \in 1..Len(ts) |-> Str(i) \o <<".", " ">> \o ts[i]])

\* TocDocument without the test 'if not titles'
TocDocument_NoPlaceholder(ts) ==
    Join(<<Txt_TocHeader, <<>>>> \o TocEntries(ts), <<NL>>) \o <<NL>>

\* the document stage_3_toc returns for the extracted titles
TocDocument(ts) ==
    IF ts = <<>>
    THEN Txt_TocHeader \o <<NL, NL>> \o Txt_NoChapters \o <<NL>>
    ELSE Join(<<Txt_TocHeader, <<>>>> \o TocEntries(ts), <<NL>>) \o <<NL>>

stage_3_toc(text) == TocDocument(extract_chapter_titles(text))

-----------------------------------------------------------------------------
(* Configuration: generate_default_config *)

\* whether sub occurs in s ('sub in s')
Contains(s, sub) ==
    \E i \in 0..(Len(s) - Len(sub)) : SubSeq(s, i + 1, i + Len(sub)) = sub

\* s.split()[0], for s holding a character that is no whitespace
FirstWordOf(t) ==
    SubSeq(t, 1, Span(t, 0, {t[k] : k \in 1..Len(t)} \ Whitespace))
FirstWord(s) == FirstWordOf(LStrip(s, Whitespace))

Txt_beginner == <<"b", "e", "g", "i", "n", "n", "e", "r">>
Txt_start == <<"s", "t", "a", "r", "t">>
Txt_wellness == <<"w", "e", "l", "l", "n", "e", "s", "s">>

\* is_beginner, given topic.lower()
IsBeginner(low) == Contains(low, Txt_beginner) \/ Contains(low, Txt_start)

\* the mapping generate_default_config returns
DefaultConfig(t, keyword, beginner) ==
    [topic |-> t,
     main_keyword |-> keyword,
     theme |-> IF beginner THEN "beginner-friendly transformation"
               ELSE "science-backed sustainable change",
     target_audience |->
         "busy professionals aged 30-50 seeking practical solutions",
     tone |-> "empowering",
     mood |-> "motivational",
     distribution_platform |-> "Amazon KDP",
     primary_format |-> "Kindle",
     chapter_length |-> 2000,
     interactive_elements_included |->
         "Printable Tracker, Progress Checklist, Habit Worksheet"]

NoConfig == [k \in {} |-> 0]

\* generate_default_config(topic): topic.split()[0] raises IndexError when
\* the topic is not empty and holds whitespace only
generate_default_config(t) ==
    IF t = <<>>
    THEN [raised |-> "none",
          config |-> DefaultConfig(t, Txt_wellness, FALSE)]
    ELSE IF AllIn(t, Whitespace)
    THEN [raised |-> "IndexError", config |-> NoConfig]
    ELSE [raised |-> "none",
          config |-> DefaultConfig(t, FirstWord(t), IsBeginner(LowerStr(t)))]

-----------------------------------------------------------------------------
(* Configuration: the backend's reply and its parsing *)

\* A reply is a sequence of pieces: the fence markers and the texts between
\* them.  A text is named by what yaml.safe_load makes of it.
FenceYaml == "fence_yaml"
Fence == "fence"

\* the mappings a reply can spell
Txt_Keto == <<"K", "e", "t", "o">>
BackendConfig ==
    [topic |-> Txt_Keto,
     main_keyword |-> <<"k", "e", "t", "o">>,
     theme |-> "science-backed transformation",
     target_audience |-> "busy professionals aged 30-50",
     tone |-> "empowering",
     mood |-> "motivational",
     distribution_platform |-> "Amazon KDP",
     primary_format |-> "Kindle",
     chapter_length |-> 2000,
     interactive_elements_included |->
         "Printable Tracker, Progress Checklist, Habit Worksheet"]

\* yaml.safe_load of one text: a mapping, another value (a string, a list,
\* None), or a YAML error
LoadText(piece) ==
    CASE piece = "map" -> [kind |-> "dict", val |-> BackendConfig]
      [] piece = "map_sys" ->
            [kind |-> "dict",
             val |-> [min_search_results |-> 5, num_chapters |-> 12]
                     @@ BackendConfig]
      [] piece = "map_part" ->
            [kind |-> "dict", val |-> [topic |-> Txt_Keto]]
      [] piece \in {"sentence", "list"} -> [kind |-> "other", val |-> NoConfig]
      [] OTHER -> [kind |-> "error", val |-> NoConfig]

\* str.strip() on pieces: "blank" is a text of whitespace only
IsBlankPiece(x) == x = "blank"
StripPieces(ps) ==
    SubSeq(ps, SetMin({Len(ps) + 1} \cup {k \in 1..Len(ps) : ~IsBlankPiece(ps[k])}),
           SetMax({0} \cup {k \in 1..Len(ps) : ~IsBlankPiece(ps[k])}))

\* yaml.safe_load of a stripped text: nothing loads as None, blank lines
\* around a document change nothing, and a mapping followed by a sentence
\* (the one text of two pieces among the replies) is a YAML error
LoadStripped(ps) ==
    IF ps = <<>> THEN [kind |-> "other", val |-> NoConfig]
    ELSE IF Len(ps) = 1 THEN LoadText(ps[1])
    ELSE [kind |-> "error", val |-> NoConfig]
safe_load(ps) == LoadStripped(StripPieces(ps))

\* text.split(marker)[1] and text.split(marker)[0], the marker being one of
\* the pieces in seps; a plain fence also ends a piece at a yaml fence
AfterFirst(ps, seps) ==
    Drop(ps, SetMin({k \in 1..Len(ps) : ps[k] \in seps}))
UpToNext(ps, seps) ==
    SubSeq(ps, 1, SetMin({Len(ps) + 1} \cup {k \in 1..Len(ps) : ps[k] \in seps}) - 1)
Between(ps, open, close) == UpToNext(UpToNext(AfterFirst(ps, open), open), close)

\* the text handed to yaml.safe_load: the block after the first yaml fence,
\* else the block after the first plain fence, else the whole reply
ExtractBlock(ps) ==
    IF \E k \in 1..Len(ps) : ps[k] = FenceYaml
    THEN StripPieces(Between(ps, {FenceYaml}, {Fence, FenceYaml}))
    ELSE IF \E k \in 1..Len(ps) : ps[k] = Fence
    THEN StripPieces(Between(ps, {Fence}, {Fence}))
    ELSE ps

\* what the try block makes of the backend's return value: a reply that is
\* no string (None) raises TypeError at the first 'in', inside the try
ParseReply(gen) ==
    IF gen.kind = "text" THEN safe_load(ExtractBlock(gen.toks))
    ELSE [kind |-> "error", val |-> NoConfig]

-----------------------------------------------------------------------------
(* Configuration: generate_config_from_topic *)

\* WithSystemDefaults keeping a value the mapping already holds
WithSystemDefaults_KeepExisting(cfg) ==
    cfg @@ [min_search_results |-> 12000000, num_chapters |-> 5]

\* config['min_search_results'] = 12000000; config['num_chapters'] = 5
WithSystemDefaults(cfg) ==
    [min_search_results |-> 12000000, num_chapters |-> 5] @@ cfg

\* config = generate_default_config(topic), then the system defaults; an
\* exception of generate_default_config is caught nowhere
FallbackConfig(d) ==
    IF d.raised # "none" THEN [raised |-> d.raised, config |-> NoConfig]
    ELSE [raised |-> "none", config |-> WithSystemDefaults(d.config)]

\* the end of the try block and its except clause: a mapping is kept, any
\* other value and any exception fall back to the defaults
FromParsed(t, parsed) ==
    IF parsed.kind = "dict"
    THEN [raised |-> "none", config |-> WithSystemDefaults(parsed.val)]
    ELSE FallbackConfig(generate_default_config(t))

\* generate_config_from_topic(topic, llm_client), gen being what
\* llm_client.generate(prompt) does; the call stands before the try block
generate_config_from_topic(t, cl, gen) ==
    IF cl = "none" THEN FallbackConfig(generate_default_config(t))
    ELSE IF gen.kind = "raise"
    THEN [raised |-> "BackendError", config |-> NoConfig]
    ELSE FromParsed(t, ParseReply(gen))

-----------------------------------------------------------------------------
(* Configuration: apply_template_defaults *)

StandardValues ==
    [intro_min_words |-> 600, intro_max_words |-> 900, num_chapters |-> 5,
     chapter_length |-> 1200, final_min_words |-> 600,
     final_max_words |-> 900, review_min_words |-> 300,
     review_max_words |-> 500]
QuickstartValues ==
    [intro_min_words |-> 300, intro_max_words |-> 500, num_chapters |-> 3,
     chapter_length |-> 800, final_min_words |-> 300,
     final_max_words |-> 500, review_min_words |-> 150,
     review_max_words |-> 250]
DeepdiveValues ==
    [intro_min_words |-> 800, intro_max_words |-> 1200, num_chapters |-> 8,
     chapter_length |-> 2000, final_min_words |-> 800,
     final_max_words |-> 1200, review_min_words |-> 400,
     review_max_words |-> 700]

\* apply_template_defaults keeping the values the configuration holds
apply_template_defaults_KeepExisting(cfg, t) ==
    IF t = "standard" THEN cfg @@ StandardValues
    ELSE IF t = "quickstart" THEN cfg @@ QuickstartValues
    ELSE IF t = "deepdive" THEN cfg @@ DeepdiveValues
    ELSE cfg

\* apply_template_defaults treating every other name as 'standard'
apply_template_defaults_ElseStandard(cfg, t) ==
    IF t = "quickstart" THEN QuickstartValues @@ cfg
    ELSE IF t = "deepdive" THEN DeepdiveValues @@ cfg
    ELSE StandardValues @@ cfg

apply_template_defaults(cfg, t) ==
    IF t = "standard" THEN StandardValues @@ cfg
    ELSE IF t = "quickstart" THEN QuickstartValues @@ cfg
    ELSE IF t = "deepdive" THEN DeepdiveValues @@ cfg
    ELSE cfg

-----------------------------------------------------------------------------
(* Configuration: edit_config_interactive *)

\* the keys the editor offers, in menu order
Editable ==
    <<"topic", "main_keyword", "theme", "target_audience", "tone", "mood",
      "distribution_platform", "primary_format", "chapter_length",
      "interactive_elements_included">>

DigitValue(c) ==
    CASE c = "0" -> 0 [] c = "1" -> 1 [] c = "2" -> 2 [] c = "3" -> 3
      [] c = "4" -> 4 [] c = "5" -> 5 [] c = "6" -> 6 [] c = "7" -> 7
      [] c = "8" -> 8 [] c = "9" -> 9

RECURSIVE DecimalValue(_)
DecimalValue(s) ==
    IF s = <<>> THEN 0
    ELSE 10 * DecimalValue(SubSeq(s, 1, Len(s) - 1)) + DigitValue(s[Len(s)])

\* int(text): blanks around the numeral and one sign before it are allowed;
\* anything else raises ValueError
Unsigned(s) == IF s # <<>> /\ s[1] \in {"+", "-"} THEN Tail(s) ELSE s
IsNumeral(s) == s # <<>> /\ AllIn(s, Digits)
ParsesAsInt(text) == IsNumeral(Unsigned(Strip(text)))
SignedValue(s) ==
    IF s[1] = "-" THEN 0 - DecimalValue(Tail(s)) ELSE DecimalValue(Unsigned(s))
IntOf(text) == SignedValue(Strip(text))

\* str(n) for an integer
StrInt(n) == IF n < 0 THEN <<"-">> \o Str(0 - n) ELSE Str(n)

\* get_user_input(prompt, default): the stripped input, or the default when
\* the input is empty
UserInput(text, default) ==
    IF Strip(text) # <<>> THEN Strip(text) ELSE default

\* the keys whose values the model keeps as character sequences; the
\* values of the other text keys are kept whole
CharKeys == {"topic", "main_keyword"}
Whole(text) ==
    CASE text = <<"c", "a", "l", "m">> -> "calm"
      [] text = <<"0">> -> "0"
      [] text = <<"-", "5">> -> "-5"

\* new_value = get_user_input("Enter new value", str(current)) for a key
\* that holds text
NewText(key, text, current) ==
    IF Strip(text) = <<>> THEN current
    ELSE IF key \in CharKeys THEN Strip(text)
    ELSE Whole(Strip(text))

Edited(cfg, more) == [raised |-> "none", config |-> cfg, more |-> more]

\* the answers typed in one pass of the loop: to 'modify any parameters?',
\* at the menu and as the new value
Typed(confirm, choice, text) ==
    [confirm |-> confirm, choice |-> choice, text |-> text]
NoInput == Typed(FALSE, <<>>, <<>>)

\* the chosen key gets its new value; a key the configuration lacks raises
\* KeyError at config[key], a chapter_length that is no integer raises the
\* ValueError the loop catches
EditKey(cfg, key, text) ==
    IF key \notin DOMAIN cfg
    THEN [raised |-> "KeyError", config |-> cfg, more |-> FALSE]
    ELSE IF key # "chapter_length"
    THEN Edited((key :> NewText(key, text, cfg[key])) @@ cfg, TRUE)
    ELSE IF ParsesAsInt(UserInput(text, StrInt(cfg[key])))
    THEN Edited((key :> IntOf(UserInput(text, StrInt(cfg[key])))) @@ cfg,
                TRUE)
    ELSE Edited(cfg, TRUE)

\* EditChoice ending the loop at a number outside the menu
EditChoice_EndsLoop(cfg, n, text) ==
    IF n \notin 1..Len(Editable) THEN Edited(cfg, FALSE)
    ELSE EditKey(cfg, Editable[n], text)

\* the menu: 0 ends the loop, 1 to 10 choose a key, any other number is an
\* invalid choice
EditChoice(cfg, n, text) ==
    IF n = 0 THEN Edited(cfg, FALSE)
    ELSE IF n \notin 1..Len(Editable) THEN Edited(cfg, TRUE)
    ELSE EditKey(cfg, Editable[n], text)

\* one pass of the loop of edit_config_interactive: the answer to 'modify
\* any parameters?', the menu choice and the new value as typed; more tells
\* whether the loop goes on
edit_config_pass(cfg, confirm, choice, text) ==
    IF ~confirm THEN Edited(cfg, FALSE)
    ELSE IF ~ParsesAsInt(choice) THEN Edited(cfg, TRUE)
    ELSE EditChoice(cfg, IntOf(choice), text)

-----------------------------------------------------------------------------
(* Stage 1: stage_1_seo_queries *)

Txt_guide == <<" ", "g", "u", "i", "d", "e">>
Txt_tips == <<" ", "t", "i", "p", "s">>
Txt_how_to == <<"h", "o", "w", " ", "t", "o", " ">>
Txt_for_beginners ==
    <<" ", "f", "o", "r", " ", "b", "e", "g", "i", "n", "n", "e", "r", "s">>

\* the keys the prompt of Stage 1 reads
PromptKeys ==
    {"topic", "tone", "mood", "theme", "main_keyword", "target_audience"}

\* the fallback queries
FallbackQueries(kw) ==
    <<kw, kw \o Txt_guide, kw \o Txt_tips, Txt_how_to \o kw,
      kw \o Txt_for_beginners>>

\* [q.strip() for q in parts if q.strip()]
KeepText(q) == IF q = <<>> THEN <<>> ELSE <<q>>
RECURSIVE StripKeep(_)
StripKeep(parts) ==
    IF parts = <<>> THEN <<>>
    ELSE KeepText(Strip(Head(parts))) \o StripKeep(Tail(parts))

\* Take returning the whole list
Take_All(s, n) == s

\* s[:n]
Take(s, n) == IF Len(s) <= n THEN s ELSE SubSeq(s, 1, n)

\* stage_1_seo_queries(config, llm_client), gen being what
\* llm_client.stream_generate(prompt, on_delta) does
stage_1_seo_queries(cfg, cl, gen) ==
    IF ~(PromptKeys \subseteq DOMAIN cfg)
    THEN [raised |-> "KeyError", queries |-> <<>>]
    ELSE IF cl = "none"
    THEN [raised |-> "none", queries |-> FallbackQueries(cfg.main_keyword)]
    ELSE IF gen.kind = "raise"
    THEN [raised |-> "BackendError", queries |-> <<>>]
    ELSE [raised |-> "none",
          queries |-> Take(StripKeep(Split(Strip(gen.toks), NL)), 5)]

-----------------------------------------------------------------------------
(* Stage 4: stage_4_chapters *)

Txt_HashChapter ==
    <<"#", " ", "C", "h", "a", "p", "t", "e", "r", " ">>
Txt_Chapter ==
    <<"C", "h", "a", "p", "t", "e", "r", " ">>
Txt_Empty ==
    <<"(", "E", "m", "p", "t", "y", ")">>
Txt_ContentFor ==
    <<"C", "o", "n", "t", "e", "n", "t", " ", "f", "o", "r", " ">>

\* the run's output directory and the name of the persisted outline
OutputDir == "out"
OutlineFile == <<"stage_2_outline.md">>

\* config.get('output_dir', './output')
DirOf(cfg) ==
    IF "output_dir" \in DOMAIN cfg THEN cfg.output_dir ELSE "./output"

\* the text of stage_2_outline.md in the directory the configuration names,
\* '' when there is no such file.  Written and read back as UTF-8 the text
\* is unchanged (the alphabet of the model holds no carriage return).
ReadOutline(cfg, fs) ==
    IF DirOf(cfg) = OutputDir /\ OutlineFile \in DOMAIN fs
    THEN fs[OutlineFile]
    ELSE <<>>

\* extract_chapter_titles(outline_text) if outline_text else []
Stage4Titles(text) ==
    IF text = <<>> THEN <<>> ELSE extract_chapter_titles(text)

\* config.get('num_chapters', 5)
NumChapters(cfg) ==
    IF "num_chapters" \in DOMAIN cfg THEN cfg.num_chapters ELSE 5

\* FallbackTitles whatever the configuration says: always five
FallbackTitles_FixedFive(n) ==
    Tuple([i \in 1..5 |-> Txt_Chapter \o Str(i)])

\* [f"Chapter {i+1}" for i in range(n)]
FallbackTitles(n) ==
    Tuple([i \in 1..n |-> Txt_Chapter \o Str(i)])

TitlesOrFallback(ts, cfg) ==
    IF ts = <<>> THEN FallbackTitles(NumChapters(cfg)) ELSE ts

\* f"# Chapter {i}: {title}"
ChapterHeading(i, title) ==
    Txt_HashChapter \o Str(i) \o <<":", " ">> \o title

\* the i-th call of stream_generate: the backend's outcomes repeat the script
StreamOutcome(script, i) == script[((i - 1) % Len(script)) + 1]

\* the chapter made of a streamed text: a text that is falsy (None, '')
\* gives the placeholder, any other text is stripped
StreamedChapter(heading, out) ==
    IF out.kind = "text" /\ out.toks # <<>>
    THEN heading \o <<NL, NL>> \o Strip(out.toks)
    ELSE heading \o <<NL, NL>> \o Txt_Empty

\* the chapter written without a backend
PlainChapter(heading, title) ==
    heading \o <<NL, NL>> \o Txt_ContentFor \o title \o <<".", ".", ".">>

\* chapters.append(...) before the rest of the loop
PrependChapter(ch, r) ==
    IF r.raised # "none" THEN r
    ELSE [raised |-> "none", chapters |-> <<ch>> \o r.chapters]

\* the loop over the titles from the i-th on; the prompt reads
\* config['topic'], and stream_generate may raise
RECURSIVE WriteChapters(_, _, _, _, _)
WriteChapters(ts, i, cl, script, cfg) ==
    IF i > Len(ts) THEN [raised |-> "none", chapters |-> <<>>]
    ELSE IF cl = "none"
    THEN PrependChapter(PlainChapter(ChapterHeading(i, ts[i]), ts[i]),
                        WriteChapters(ts, i + 1, cl, script, cfg))
    ELSE IF "topic" \notin DOMAIN cfg
    THEN [raised |-> "KeyError", chapters |-> <<>>]
    ELSE IF StreamOutcome(script, i).kind = "raise"
    THEN [raised |-> "BackendError", chapters |-> <<>>]
    ELSE PrependChapter(
             StreamedChapter(ChapterHeading(i, ts[i]),
                             StreamOutcome(script, i)),
             WriteChapters(ts, i + 1, cl, script, cfg))

\* stage_4_chapters(config, queries, llm_client), fs being the files of
\* the output directory and script what the backend does call by call
stage_4_chapters(cfg, fs, cl, script) ==
    WriteChapters(
        TitlesOrFallback(Stage4Titles(ReadOutline(cfg, fs)), cfg),
        1, cl, script, cfg)

-----------------------------------------------------------------------------
(* MockClient: the backend that answers from fixed texts *)

Backtick == "backtick"

\* the three texts of MockClient.generate the pipeline's prompts can draw
MockYaml ==
    <<Backtick, Backtick, Backtick, "y", "a", "m", "l", NL, "t", "o", "p",
    "i", "c", ":", " ", "\"", "w", "e", "l", "l", "n", "e", "s", "s", "\"",
    NL, "m", "a", "i", "n", "_", "k", "e", "y", "w", "o", "r", "d", ":", " ",
    "\"", "w", "e", "l", "l", "n", "e", "s", "s", "\"", NL, "t", "h", "e",
    "m", "e", ":", " ", "\"", "s", "c", "i", "e", "n", "c", "e", "-", "b",
    "a", "c", "k", "e", "d", " ", "t", "r", "a", "n", "s", "f", "o", "r",
    "m", "a", "t", "i", "o", "n", "\"", NL, "t", "a", "r", "g", "e", "t",
    "_", "a", "u", "d", "i", "e", "n", "c", "e", ":", " ", "\"", "b", "u",
    "s", "y", " ", "p", "r", "o", "f", "e", "s", "s", "i", "o", "n", "a",
    "l", "s", " ", "a", "g", "e", "d", " ", "3", "0", "-", "5", "0", "\"",
    NL, "t", "o", "n", "e", ":", " ", "\"", "e", "m", "p", "o", "w", "e",
    "r", "i", "n", "g", "\"", NL, "m", "o", "o", "d", ":", " ", "\"", "m",
    "o", "t", "i", "v", "a", "t", "i", "o", "n", "a", "l", "\"", NL, "d",
    "i", "s", "t", "r", "i", "b", "u", "t", "i", "o", "n", "_", "p", "l",
    "a", "t", "f", "o", "r", "m", ":", " ", "\"", "A", "m", "a", "z", "o",
    "n", " ", "K", "D", "P", "\"", NL, "p", "r", "i", "m", "a", "r", "y",
    "_", "f", "o", "r", "m", "a", "t", ":", " ", "\"", "K", "i", "n", "d",
    "l", "e", "\"", NL, "c", "h", "a", "p", "t", "e", "r", "_", "l", "e",
    "n", "g", "t", "h", ":", " ", "2", "0", "0", "0", NL, "i", "n", "t", "e",
    "r", "a", "c", "t", "i", "v", "e", "_", "e", "l", "e", "m", "e", "n",
    "t", "s", "_", "i", "n", "c", "l", "u", "d", "e", "d", ":", " ", "\"",
    "P", "r", "i", "n", "t", "a", "b", "l", "e", " ", "T", "r", "a", "c",
    "k", "e", "r", ",", " ", "P", "r", "o", "g", "r", "e", "s", "s", " ",
    "C", "h", "e", "c", "k", "l", "i", "s", "t", ",", " ", "H", "a", "b",
    "i", "t", " ", "W", "o", "r", "k", "s", "h", "e", "e", "t", "\"", NL,
    Backtick, Backtick, Backtick>>
MockQueries ==
    <<"w", "e", "i", "g", "h", "t", " ", "l", "o", "s", "s", NL, "w", "e",
    "i", "g", "h", "t", " ", "l", "o", "s", "s", " ", "t", "i", "p", "s", NL,
    "h", "o", "w", " ", "t", "o", " ", "l", "o", "s", "e", " ", "w", "e",
    "i", "g", "h", "t", NL, "w", "e", "i", "g", "h", "t", " ", "l", "o", "s",
    "s", " ", "d", "i", "e", "t", NL, "w", "e", "i", "g", "h", "t", " ", "l",
    "o", "s", "s", " ", "f", "o", "r", " ", "b", "e", "g", "i", "n", "n",
    "e", "r", "s">>
MockOutline ==
    <<"#", " ", "T", "r", "a", "n", "s", "f", "o", "r", "m", " ", "Y", "o",
    "u", "r", " ", "B", "o", "d", "y", ":", " ", "T", "h", "e", " ", "S",
    "c", "i", "e", "n", "c", "e", " ", "o", "f", " ", "S", "u", "s", "t",
    "a", "i", "n", "a", "b", "l", "e", " ", "W", "e", "i", "g", "h", "t",
    " ", "L", "o", "s", "s", NL, NL, "#", "#", " ", "C", "o", "r", "e", " ",
    "T", "r", "a", "n", "s", "f", "o", "r", "m", "a", "t", "i", "o", "n",
    " ", "S", "u", "m", "m", "a", "r", "y", NL, "T", "h", "i", "s", " ", "b",
    "o", "o", "k", " ", "g", "u", "i", "d", "e", "s", " ", "b", "u", "s",
    "y", " ", "p", "r", "o", "f", "e", "s", "s", "i", "o", "n", "a", "l",
    "s", " ", "t", "h", "r", "o", "u", "g", "h", " ", "e", "v", "i", "d",
    "e", "n", "c", "e", "-", "b", "a", "s", "e", "d", " ", "w", "e", "i",
    "g", "h", "t", " ", "l", "o", "s", "s", " ", "s", "t", "r", "a", "t",
    "e", "g", "i", "e", "s", " ", "t", "h", "a", "t", " ", "f", "i", "t",
    " ", "i", "n", "t", "o", " ", "h", "e", "c", "t", "i", "c", " ", "s",
    "c", "h", "e", "d", "u", "l", "e", "s", ".", " ", "Y", "o", "u", "'",
    "l", "l", " ", "d", "i", "s", "c", "o", "v", "e", "r", " ", "s", "u",
    "s", "t", "a", "i", "n", "a", "b", "l", "e", " ", "a", "p", "p", "r",
    "o", "a", "c", "h", "e", "s", " ", "t", "h", "a", "t", " ", "p", "r",
    "i", "o", "r", "i", "t", "i", "z", "e", " ", "h", "e", "a", "l", "t",
    "h", " ", "o", "v", "e", "r", " ", "q", "u", "i", "c", "k", " ", "f",
    "i", "x", "e", "s", ",", " ", "c", "o", "m", "b", "i", "n", "i", "n",
    "g", " ", "n", "u", "t", "r", "i", "t", "i", "o", "n", " ", "s", "c",
    "i", "e", "n", "c", "e", " ", "w", "i", "t", "h", " ", "b", "e", "h",
    "a", "v", "i", "o", "r", "a", "l", " ", "p", "s", "y", "c", "h", "o",
    "l", "o", "g", "y", ".", NL, NL, "#", "#", " ", "C", "h", "a", "p", "t",
    "e", "r", "s", " ", "&", " ", "G", "o", "a", "l", "s", NL, NL, "C", "h",
    "a", "p", "t", "e", "r", " ", "1", ":", " ", "U", "n", "d", "e", "r",
    "s", "t", "a", "n", "d", "i", "n", "g", " ", "Y", "o", "u", "r", " ",
    "M", "e", "t", "a", "b", "o", "l", "i", "s", "m", NL, "G", "o", "a", "l",
    ":", " ", "L", "e", "a", "r", "n", " ", "h", "o", "w", " ", "y", "o",
    "u", "r", " ", "b", "o", "d", "y", " ", "p", "r", "o", "c", "e", "s",
    "s", "e", "s", " ", "f", "o", "o", "d", " ", "a", "n", "d", " ", "b",
    "u", "r", "n", "s", " ", "c", "a", "l", "o", "r", "i", "e", "s", ".", NL,
    NL, "C", "h", "a", "p", "t", "e", "r", " ", "2", ":", " ", "N", "u", "t",
    "r", "i", "t", "i", "o", "n", " ", "F", "u", "n", "d", "a", "m", "e",
    "n", "t", "a", "l", "s", NL, "G", "o", "a", "l", ":", " ", "M", "a", "s",
    "t", "e", "r", " ", "t", "h", "e", " ", "b", "a", "s", "i", "c", "s",
    " ", "o", "f", " ", "m", "a", "c", "r", "o", "n", "u", "t", "r", "i",
    "e", "n", "t", "s", " ", "a", "n", "d", " ", "m", "e", "a", "l", " ",
    "p", "l", "a", "n", "n", "i", "n", "g", ".", NL, NL, "C", "h", "a", "p",
    "t", "e", "r", " ", "3", ":", " ", "E", "x", "e", "r", "c", "i", "s",
    "e", " ", "E", "s", "s", "e", "n", "t", "i", "a", "l", "s", NL, "G", "o",
    "a", "l", ":", " ", "D", "e", "s", "i", "g", "n", " ", "a", " ", "w",
    "o", "r", "k", "o", "u", "t", " ", "r", "o", "u", "t", "i", "n", "e",
    " ", "t", "h", "a", "t", " ", "f", "i", "t", "s", " ", "y", "o", "u",
    "r", " ", "l", "i", "f", "e", "s", "t", "y", "l", "e", ".", NL, NL, "C",
    "h", "a", "p", "t", "e", "r", " ", "4", ":", " ", "B", "u", "i", "l",
    "d", "i", "n", "g", " ", "L", "a", "s", "t", "i", "n", "g", " ", "H",
    "a", "b", "i", "t", "s", NL, "G", "o", "a", "l", ":", " ", "C", "r", "e",
    "a", "t", "e", " ", "s", "u", "s", "t", "a", "i", "n", "a", "b", "l",
    "e", " ", "b", "e", "h", "a", "v", "i", "o", "r", "s", " ", "f", "o",
    "r", " ", "l", "o", "n", "g", "-", "t", "e", "r", "m", " ", "s", "u",
    "c", "c", "e", "s", "s", ".", NL, NL, "C", "h", "a", "p", "t", "e", "r",
    " ", "5", ":", " ", "O", "v", "e", "r", "c", "o", "m", "i", "n", "g",
    " ", "P", "l", "a", "t", "e", "a", "u", "s", NL, "G", "o", "a", "l", ":",
    " ", "N", "a", "v", "i", "g", "a", "t", "e", " ", "c", "h", "a", "l",
    "l", "e", "n", "g", "e", "s", " ", "a", "n", "d", " ", "m", "a", "i",
    "n", "t", "a", "i", "n", " ", "m", "o", "m", "e", "n", "t", "u", "m",
    ".", NL, NL, "F", "i", "n", "a", "l", " ", "T", "h", "o", "u", "g", "h",
    "t", "s", NL, "G", "o", "a", "l", ":", " ", "E", "m", "b", "r", "a", "c",
    "e", " ", "y", "o", "u", "r", " ", "t", "r", "a", "n", "s", "f", "o",
    "r", "m", "a", "t", "i", "o", "n", " ", "j", "o", "u", "r", "n", "e",
    "y", " ", "w", "i", "t", "h", " ", "c", "o", "n", "f", "i", "d", "e",
    "n", "c", "e", " ", "a", "n", "d", " ", "k", "n", "o", "w", "l", "e",
    "d", "g", "e", ".">>

Txt_configuration ==
    <<"c", "o", "n", "f", "i", "g", "u", "r", "a", "t", "i", "o", "n">>
Txt_strategist ==
    <<"s", "t", "r", "a", "t", "e", "g", "i", "s", "t">>
Txt_SEO ==
    <<"S", "E", "O">>
Txt_queries ==
    <<"q", "u", "e", "r", "i", "e", "s">>

\* the tests of MockClient.generate on the part of a prompt that varies
\* (topic, chapter title); no text of the model holds 'Given Topic:'
ConfigWords(low) ==
    Contains(low, Txt_configuration) \/ Contains(low, Txt_strategist)
QueryWords(v, low) == Contains(v, Txt_SEO) \/ Contains(low, Txt_queries)

\* MockClient.generate(prompt) for the prompts of the pipeline: the prompt
\* of Stage 1 holds 'strategist', every other one holds 'eBook'
MockDispatch(kind, v, low) ==
    IF kind = "stage_1" \/ ConfigWords(low) THEN MockYaml
    ELSE IF QueryWords(v, low) THEN MockQueries
    ELSE MockOutline
MockGenerate(kind, v) == MockDispatch(kind, v, LowerStr(v))

-----------------------------------------------------------------------------
(* Stage 2: stage_2_outline *)

\* str.upper() on one character (ASCII letters)
Upper(c) ==
    CASE c = "a" -> "A" [] c = "b" -> "B" [] c = "c" -> "C" [] c = "d" -> "D"
      [] c = "e" -> "E" [] c = "f" -> "F" [] c = "g" -> "G" [] c = "h" -> "H"
      [] c = "i" -> "I" [] c = "j" -> "J" [] c = "k" -> "K" [] c = "l" -> "L"
      [] c = "m" -> "M" [] c = "n" -> "N" [] c = "o" -> "O" [] c = "p" -> "P"
      [] c = "q" -> "Q" [] c = "r" -> "R" [] c = "s" -> "S" [] c = "t" -> "T"
      [] c = "u" -> "U" [] c = "v" -> "V" [] c = "w" -> "W" [] c = "x" -> "X"
      [] c = "y" -> "Y" [] c = "z" -> "Z"
      [] OTHER -> c

Letters ==
    {"a", "b", "c", "d", "e", "f", "g", "h", "i", "j", "k", "l", "m", "n",
     "o", "p", "q", "r", "s", "t", "u", "v", "w", "x", "y", "z"}
IsLetter(c) == Lower(c) \in Letters

\* str.title(): a letter after a character that is no letter is put in
\* upper case, every other letter in lower case
TitleCase(s) ==
    Tuple([i \in 1..Len(s) |->
              IF i = 1 \/ ~IsLetter(s[i - 1]) THEN Upper(s[i])
              ELSE Lower(s[i])])

Txt_OutlineTail ==
    <<NL, NL, "#", "#", " ", "O", "u", "t", "l", "i", "n", "e", NL, NL, "-",
    " ", "C", "h", "a", "p", "t", "e", "r", " ", "1", NL, "-", " ", "C", "h",
    "a", "p", "t", "e", "r", " ", "2", NL, "-", " ", "C", "h", "a", "p", "t",
    "e", "r", " ", "3", NL, "-", " ", "C", "h", "a", "p", "t", "e", "r", " ",
    "4", NL, "-", " ", "C", "h", "a", "p", "t", "e", "r", " ", "5">>

\* stage_2_outline(config, queries, llm_client), gen being what
\* llm_client.stream_generate does; both branches read config['topic']
stage_2_outline(cfg, cl, gen) ==
    IF "topic" \notin DOMAIN cfg
    THEN [raised |-> "KeyError", outline |-> <<>>]
    ELSE IF cl = "none"
    THEN [raised |-> "none",
          outline |-> <<"#", " ">> \o TitleCase(cfg.topic)
                      \o Txt_OutlineTail]
    ELSE IF gen.kind = "raise"
    THEN [raised |-> "BackendError", outline |-> <<>>]
    ELSE [raised |-> "none", outline |-> gen.toks]

-----------------------------------------------------------------------------
(* Stages 5 to 9 and the files of the output directory *)

\* stage_5_optimize(chapters, llm_client): returns the list it is given
stage_5_optimize(chs) == chs

\* stage_6_cover(config, optimized_chapters[0], llm_client): indexing an
\* empty chapter list raises before the call
stage_6_cover(cfg, chs) ==
    IF chs = <<>> THEN [raised |-> "IndexError", out |-> <<>>]
    ELSE IF "topic" \notin DOMAIN cfg
    THEN [raised |-> "KeyError", out |-> <<>>]
    ELSE [raised |-> "none",
          out |-> <<"Ultra-realistic, cinematic eBook cover for '">>
                  \o cfg.topic
                  \o <<"', emotional and transformative visual metaphor, high-resolution, A4 format.">>]

\* stage_7_interactive numbering the records from 0
stage_7_interactive_ZeroBased(chs) ==
    Tuple([i \in 1..Len(chs) |->
              [chapter |-> i - 1,
               title |-> <<"Progress Tracker - Chapter ">> \o Str(i),
               type |-> "Printable Tracker",
               description |-> "Track your progress"]])

\* stage_7_interactive(chapters, llm_client)
stage_7_interactive(chs) ==
    Tuple([i \in 1..Len(chs) |->
              [chapter |-> i,
               title |-> <<"Progress Tracker - Chapter ">> \o Str(i),
               type |-> "Printable Tracker",
               description |-> "Track your progress"]])

\* stage_8_diagrams(chapters, llm_client)
stage_8_diagrams(chs) ==
    Tuple([i \in 1..Len(chs) |->
              [chapter |-> i,
               prompt |-> "3D isometric diagram showing key concepts, calming pastel tones, high-resolution"]])

\* stage_9_backgrounds(chapters, llm_client)
stage_9_backgrounds(chs) ==
    Tuple([i \in 1..Len(chs) |->
              [chapter |-> i,
               prompt |-> "Fitness transformation themed background, dynamic gradients, ultra-realistic"]])

\* json.dumps of the records of Stage 7 and of Stages 8 and 9, as a
\* sequence of text fragments; numbers are written in decimal
JsonElement(e) ==
    <<"{", "\"chapter\": ">> \o Str(e.chapter)
    \o <<", \"title\": \"">> \o e.title
    \o <<"\", \"type\": \"", e.type, "\", \"description\": \"",
         e.description, "\"}">>
JsonPrompt(e) ==
    <<"{", "\"chapter\": ">> \o Str(e.chapter)
    \o <<", \"prompt\": \"", e.prompt, "\"}">>
JsonElements(es) ==
    <<"[">> \o Join(Tuple([i \in 1..Len(es) |-> JsonElement(es[i])]), <<",">>)
    \o <<"]">>
JsonPrompts(es) ==
    <<"[">> \o Join(Tuple([i \in 1..Len(es) |-> JsonPrompt(es[i])]), <<",">>)
    \o <<"]">>

\* the names of the artifacts
QueriesFile == <<"stage_1_queries.txt">>
TocFile == <<"stage_3_toc.md">>
ChapterFile(i) == <<"stage_4_chapter_">> \o Str(i) \o <<".md">>
OptimizedFile(i) == <<"stage_5_optimized_chapter_">> \o Str(i) \o <<".md">>
CoverFile == <<"stage_6_cover_prompt.txt">>
ElementsFile == <<"stage_7_interactive_elements.json">>
DiagramsFile == <<"stage_8_diagram_prompts.json">>
BackgroundsFile == <<"stage_9_background_prompts.json">>
EbookFile == <<"FINAL_EBOOK.md">>
MetadataFile == <<"generation_metadata.json">>

\* save_stage_output opening the file and writing nothing
save_stage_output_NoWrite(fs, name, content) ==
    (name :> <<>>) @@ fs

\* save_stage_output(output_dir, filename, content): the file is created or
\* truncated and holds the content
save_stage_output(fs, name, content) ==
    (name :> content) @@ fs

\* for i, chapter in enumerate(chapters, 1): save_stage_output(...), from
\* the i-th chapter on
RECURSIVE SaveChapters(_, _, _)
SaveChapters(fs, chs, i) ==
    IF i > Len(chs) THEN fs
    ELSE SaveChapters(save_stage_output(fs, ChapterFile(i), chs[i]),
                      chs, i + 1)
RECURSIVE SaveOptimized(_, _, _)
SaveOptimized(fs, chs, i) ==
    IF i > Len(chs) THEN fs
    ELSE SaveOptimized(save_stage_output(fs, OptimizedFile(i), chs[i]),
                       chs, i + 1)

-----------------------------------------------------------------------------
(* The Compiler: compile_ebook and write_section_with_stream.  The        *)
(* document is kept as the sequence of the blocks written to the file,     *)
(* each with its text; a horizontal rule is a block of its own.            *)

Block(kind, text) == [blk |-> kind, text |-> text]

\* the truth of config.get(key): a missing key gives None, 0 is falsy
Truthy(cfg, key) == key \in DOMAIN cfg /\ cfg[key] # 0

\* if x_min and x_max
Renders(cfg, lo, hi) == Truthy(cfg, lo) /\ Truthy(cfg, hi)

\* llm_client or create_llm_client(provider='mock')
SectionClient(cl) == IF cl = "none" THEN "mock" ELSE cl

\* the text a section's stream_generate call returns: the substitute
\* answers from its fixed texts, another backend with gen
SectionReply(cl, kind, v, gen) ==
    IF SectionClient(cl) = "mock"
    THEN [kind |-> "text", toks |-> MockGenerate(kind, v)]
    ELSE gen

\* write_section_with_stream(title, body_prompt, llm_client) with a client:
\* f"# {title}\n\n{text.strip()}\n"
write_section_with_stream(title, out) ==
    <<"# ", title, NL, NL>> \o Strip(out.toks) \o <<NL>>

\* the title page: three writes
TitlePieces(cfg) ==
    << Block("title", <<"#", " ">> \o TitleCase(cfg.topic) \o <<NL, NL>>),
       Block("subtitle",
             <<"*An eBook for ", cfg.target_audience, "*", NL, NL>>),
       Block("rule", <<"---", NL, NL>>) >>

\* a streamed section and the rule written after it
SectionPieces(kind, title, out) ==
    << Block(kind, write_section_with_stream(title, out)),
       Block("rule", <<NL, "---", NL, NL>>) >>

IntroPieces(cfg, cl, gen) ==
    IF Renders(cfg, "intro_min_words", "intro_max_words")
    THEN SectionPieces("intro", "Introduction",
                       SectionReply(cl, "intro", cfg.topic, gen))
    ELSE <<>>

FinalPieces(cfg, cl, gen) ==
    IF Renders(cfg, "final_min_words", "final_max_words")
    THEN SectionPieces("final", "Final Thoughts",
                       SectionReply(cl, "final", cfg.topic, gen))
    ELSE <<>>

ReviewPieces(cfg, cl, gen) ==
    IF Renders(cfg, "review_min_words", "review_max_words")
    THEN SectionPieces("review", "We'd Love Your Review",
                       SectionReply(cl, "review", <<>>, gen))
    ELSE <<>>

\* the table of contents of Stage 3 and the rule after it
TocPieces(st) ==
    IF "stage_3" \in DOMAIN st
    THEN << Block("toc", st.stage_3),
            Block("rule", <<NL, NL, "---", NL, NL>>) >>
    ELSE <<>>

\* ChapterPieces writing the chapters last to first
RECURSIVE ChapterPieces_Reversed(_, _)
ChapterPieces_Reversed(chs, i) ==
    IF i > Len(chs) THEN <<>>
    ELSE << Block("chapter", chs[Len(chs) + 1 - i] \o <<NL, NL>>) >>
         \o (IF i < Len(chs) THEN << Block("rule", <<"---", NL, NL>>) >>
             ELSE <<>>)
         \o ChapterPieces_Reversed(chs, i + 1)

\* the optimized chapters from the i-th on, a rule after each but the last
RECURSIVE ChapterPieces(_, _)
ChapterPieces(chs, i) ==
    IF i > Len(chs) THEN <<>>
    ELSE << Block("chapter", chs[i] \o <<NL, NL>>) >>
         \o (IF i < Len(chs) THEN << Block("rule", <<"---", NL, NL>>) >>
             ELSE <<>>)
         \o ChapterPieces(chs, i + 1)

OptimizedPieces(st) ==
    IF "stage_5" \in DOMAIN st THEN ChapterPieces(st.stage_5, 1) ELSE <<>>

\* one sub-block per interactive-element record
ElementPiece(e) ==
    Block("element",
          <<"## ">> \o e.title
          \o <<NL, "Type: ", e.type, NL, e.description, NL, NL>>)
ElementPieces(es) == Tuple([i \in 1..Len(es) |-> ElementPiece(es[i])])

\* the appendix: one write of a rule and the header, then the records
AppendixPieces(st) ==
    << Block("rule", <<NL, NL, "---", NL, NL>>),
       Block("appendix", <<"# Appendix: Interactive Tools", NL, NL>>) >>
    \o (IF "stage_7" \in DOMAIN st THEN ElementPieces(st.stage_7)
        ELSE <<>>)

\* everything compile_ebook writes when no call fails
compile_ebook(cfg, st, cl, gen) ==
    TitlePieces(cfg) \o IntroPieces(cfg, cl, gen) \o TocPieces(st)
    \o OptimizedPieces(st) \o FinalPieces(cfg, cl, gen)
    \o ReviewPieces(cfg, cl, gen) \o AppendixPieces(st)

\* the content of generation_metadata.json, without its timestamp
Metadata(cfg) ==
    [config |-> cfg,
     output_files |->
         [ebook |-> <<OutputDir, "/">> \o EbookFile,
          cover_prompt |-> CoverFile,
          diagram_prompts |-> DiagramsFile,
          background_prompts |-> BackgroundsFile,
          interactive_elements |-> ElementsFile]]

-----------------------------------------------------------------------------
(* Outlines the extractor and Stage 3 are run on *)

\* '## Chapter 1 <en dash> Alpha'
Ln_Alpha ==
    <<"#", "#", " ", "C", "h", "a", "p", "t", "e", "r", " ", "1", " ",
      EnDash, " ", "A", "l", "p", "h", "a">>

\* '### Chapter 2 - Beta'
Ln_Beta ==
    <<"#", "#", "#", " ", "C", "h", "a", "p", "t", "e", "r", " ", "2",
      " ", "-", " ", "B", "e", "t", "a">>

\* '- Chapter 3 <en dash> Gamma'
Ln_Gamma ==
    <<"-", " ", "C", "h", "a", "p", "t", "e", "r", " ", "3", " ",
      EnDash, " ", "G", "a", "m", "m", "a">>

\* 'Chapter 1 - X'
Ln_X ==
    <<"C", "h", "a", "p", "t", "e", "r", " ", "1", " ", "-", " ", "X">>

\* 'chapter 2 <em dash> X'
Ln_XAgain ==
    <<"c", "h", "a", "p", "t", "e", "r", " ", "2", " ", EmDash, " ",
      "X">>

\* 'Chapter 9 - x'
Ln_LowerX ==
    <<"C", "h", "a", "p", "t", "e", "r", " ", "9", " ", "-", " ", "x">>

\* '## Chapter 1 - 1.1 Sub point'
Ln_Sub ==
    <<"#", "#", " ", "C", "h", "a", "p", "t", "e", "r", " ", "1", " ",
      "-", " ", "1", ".", "1", " ", "S", "u", "b", " ", "p", "o", "i",
      "n", "t">>

\* '# Chapter 4 - Y'
Ln_OneHash ==
    <<"#", " ", "C", "h", "a", "p", "t", "e", "r", " ", "4", " ", "-",
      " ", "Y">>

\* '####### Chapter 4 - W'
Ln_SevenHash ==
    <<"#", "#", "#", "#", "#", "#", "#", " ", "C", "h", "a", "p", "t",
      "e", "r", " ", "4", " ", "-", " ", "W">>

\* '  * CHAPTER 5-Y. .'
Ln_Dots ==
    <<" ", " ", "*", " ", "C", "H", "A", "P", "T", "E", "R", " ", "5",
      "-", "Y", ".", " ", ".">>

\* 'Chapter 6 - ...'
Ln_OnlyDots ==
    <<"C", "h", "a", "p", "t", "e", "r", " ", "6", " ", "-", " ", ".",
      ".", ".">>

\* 'Chapter 1: Intro'
Ln_Colon ==
    <<"C", "h", "a", "p", "t", "e", "r", " ", "1", ":", " ", "I", "n",
      "t", "r", "o">>

\* 'Chapter 8 - A<em dash>B'
Ln_EmInside ==
    <<"C", "h", "a", "p", "t", "e", "r", " ", "8", " ", "-", " ", "A",
      EmDash, "B">>

\* '*<tab>Chapter 10 <en dash> 2. Go'
Ln_NumDot ==
    <<"*", Tab, "C", "h", "a", "p", "t", "e", "r", " ", "1", "0", " ",
      EnDash, " ", "2", ".", " ", "G", "o">>

\* '## Outline'
Ln_Prose ==
    <<"#", "#", " ", "O", "u", "t", "l", "i", "n", "e">>

\* ' '
Ln_Blank ==
    <<" ">>

\* headings in every accepted variant, near misses, sub-numbered and
\* duplicate titles, prose and a blank line
LinePool ==
    {Ln_Alpha, Ln_Beta, Ln_Gamma, Ln_X, Ln_XAgain, Ln_LowerX, Ln_Sub,
     Ln_OneHash, Ln_SevenHash, Ln_Dots, Ln_OnlyDots, Ln_Colon, Ln_EmInside,
     Ln_NumDot, Ln_Prose, Ln_Blank}

\* the lines the outlines of several lines are made of
CorePool ==
    {Ln_Alpha, Ln_Beta, Ln_X, Ln_XAgain, Ln_LowerX, Ln_Sub, Ln_Dots,
     Ln_Colon}

MaxLines == 3

SeqsUpTo(S, n) == UNION {[1..k -> S] : k \in 0..n}

PoolOutlines == {Join(ls, <<NL>>) : ls \in SeqsUpTo(CorePool, MaxLines)}

\* every line of LinePool alone, with and without a closing line break
SingleOutlines == LinePool \cup {l \o <<NL>> : l \in LinePool}

\* the three example lines in order, with lines that are no chapter heading
\* before, between and after them
ExampleOutlines ==
    LET Gaps == {<<>>, <<Ln_Prose>>, <<Ln_OneHash>>, <<Ln_Blank, Ln_Colon>>}
    IN  {Join(g[1] \o <<Ln_Alpha>> \o g[2] \o <<Ln_Beta>> \o g[3]
              \o <<Ln_Gamma>> \o g[4], <<NL>>) : g \in [1..4 -> Gaps]}

\* one-line outlines assembled from the parts of a heading, valid and not
PartMarkers ==
    {<<>>, <<"#", "#", " ">>, <<"#", "#", "#", "#", "#", "#", Tab>>,
     <<"-", " ", " ">>, <<"*", " ">>, <<"#", " ">>, <<"-">>,
     <<"#", "#", "#", "#", "#", "#", "#", " ">>}
PartWords ==
    {<<"C", "h", "a", "p", "t", "e", "r">>,
     <<"c", "H", "A", "P", "T", "E", "R">>,
     <<"C", "h", "a", "p", "e", "r">>}
PartGaps == {<<" ">>, <<Tab, " ">>, <<>>}
PartNums == {<<"7">>, <<"1", "2">>, <<>>}
PartSeps ==
    {<<" ", "-", " ">>, <<EnDash>>, <<" ", EmDash, " ", " ">>, <<":", " ">>}
PartTitles == {<<"X">>, <<"G", "o", " ", "o", "n", ".">>}

PartOutlines ==
    {m \o w \o g \o n \o s \o t :
        m \in PartMarkers, w \in PartWords, g \in PartGaps, n \in PartNums,
        s \in PartSeps, t \in PartTitles}

Outlines ==
    PoolOutlines \cup SingleOutlines \cup ExampleOutlines \cup PartOutlines

-----------------------------------------------------------------------------
(* Topics, backend replies and configuration files the builder is run on *)

Topic_WeightLoss ==
    <<"w", "e", "i", "g", "h", "t", " ", "l", "o", "s", "s", " ", "f", "o",
    "r", " ", "b", "e", "g", "i", "n", "n", "e", "r", "s">>
Topic_Restart ==
    <<"R", "e", "s", "t", "a", "r", "t", " ", "y", "o", "g", "a">>
Topic_Sleep ==
    <<"s", "l", "e", "e", "p">>
Topic_Blank ==
    <<" ">>
Topic_Keto ==
    <<" ", " ", "k", "e", "t", "o", " ", "d", "i", "e", "t">>
Topic_Chess ==
    <<"B", "E", "G", "I", "N", "N", "E", "R", " ", "c", "h", "e", "s", "s">>
Topic_Empty == <<>>
Topics ==
    {Topic_WeightLoss, Topic_Restart, Topic_Sleep, Topic_Blank, Topic_Keto,
     Topic_Chess, Topic_Empty}

\* no call of the backend has been made
NoReply == [kind |-> "idle", toks |-> <<>>]

\* the texts a backend's generate can return, as pieces
ReplyPieces ==
    {<<FenceYaml, "blank", "map", "blank", Fence>>,
     <<"sentence", FenceYaml, "map_sys", Fence, "sentence">>,
     <<Fence, "map", Fence>>,
     <<"map">>,
     <<"blank", "map_sys", "blank">>,
     <<FenceYaml, "bad", Fence>>,
     <<"bad">>,
     <<FenceYaml, Fence>>,
     <<FenceYaml, "blank", Fence>>,
     <<FenceYaml, "sentence", Fence>>,
     <<"sentence">>,
     <<FenceYaml, "list", Fence>>,
     <<Fence, "sentence", Fence, FenceYaml, "map", Fence>>,
     <<Fence, "map", Fence, "sentence", Fence, "bad", Fence>>,
     <<FenceYaml, "map_part", Fence>>,
     <<FenceYaml, "map">>,
     <<"sentence", Fence>>,
     <<"map", "sentence">>,
     <<>>}

\* what llm_client.generate(prompt) can do: return a text, return no string
\* (None), or raise (AnthropicClient.generate re-raises the API's error)
Generates ==
    {[kind |-> "text", toks |-> ps] : ps \in ReplyPieces}
    \cup {[kind |-> "none", toks |-> <<>>], [kind |-> "raise", toks |-> <<>>]}

\* configuration files given with --config
File_Inverted ==
    [intro_min_words |-> 1000, intro_max_words |-> 10, num_chapters |-> 0,
     chapter_length |-> 0, final_min_words |-> 9, final_max_words |-> 3,
     review_min_words |-> 7, review_max_words |-> 2,
     min_search_results |-> 1]
    @@ BackendConfig
File_Plain == BackendConfig
File_Part == [topic |-> Txt_Keto, extra |-> 1]
ConfigFiles == {File_Inverted, File_Plain, File_Part}

Templates ==
    {"standard", "quickstart", "deepdive", "", "Standard", "premium"}

-----------------------------------------------------------------------------
(* Configurations and backend replies Stage 1 is run on *)

MaxRespLines == 6

Txt_a == <<"a">>
Txt_b_padded == <<" ", "b", Tab>>
RespLines == {<<>>, Txt_a, Txt_b_padded}
Responses == {Join(ls, <<NL>>) : ls \in SeqsUpTo(RespLines, MaxRespLines)}

\* what llm_client.stream_generate(prompt, on_delta) can do
Streams ==
    {[kind |-> "text", toks |-> r] : r \in Responses}
    \cup {[kind |-> "raise", toks |-> <<>>]}

Stage1Configs ==
    {WithSystemDefaults(BackendConfig),
     WithSystemDefaults(DefaultConfig(Topic_Sleep, Topic_Sleep, FALSE)),
     StandardValues @@ WithSystemDefaults(
         DefaultConfig(Topic_WeightLoss, FirstWord(Topic_WeightLoss), TRUE))}

-----------------------------------------------------------------------------
(* llm_client.py: the clients and what their API does *)

\* the bound on the events of one provider stream
MaxEvents == 3

\* a text, an exception, or nothing yet
TextOf(t) == [kind |-> "text", text |-> t]
Raises == [kind |-> "raise", text |-> <<>>]
NoResult == [kind |-> "none", text |-> <<>>]

Txt_Whole == <<"a", "b", "c">>
Frag_Ab == <<"a", "b">>
Frag_C == <<"c">>

\* what generate does: it returns a text, or the API call raises (the
\* providers print the error and raise it again)
GenOutcomes == {TextOf(Txt_Whole), TextOf(<<"x">>), TextOf(<<>>), Raises}

\* the events a provider's stream yields: a delta with text, an event the
\* loop skips (no delta, or a delta without text), or an exception raised
\* while the stream is opened or iterated
StreamEvents == {TextOf(Frag_Ab), TextOf(Frag_C), NoResult, Raises}

\* the classes: MockClient inherits stream_generate from LLMClient and its
\* generate does not raise; the two providers override stream_generate
Providers == {"AnthropicClient", "OpenAIClient"}
Clients ==
    [class : {"MockClient"}, gen : GenOutcomes \ {Raises}] \cup
    [class : Providers, gen : GenOutcomes]
NoClient == [class |-> "none", gen |-> NoResult]

\* ''.join(full)
Concat(frags) == Join(frags, <<>>)

\* 'if on_delta: on_delta(text)'
Deliver(out, sinkGiven, text) == IF sinkGiven THEN Append(out, text) ELSE out

-----------------------------------------------------------------------------
(* The extractor and Stage 3 as operations on one outline *)

\* the variables of one part of the program while another part is run
ExtractIdle == outline = <<>> /\ titles = <<>> /\ toc = <<>>
ConfigIdle ==
    /\ topic = <<>>
    /\ client = "none"
    /\ reply = NoReply
    /\ config = NoConfig
    /\ prior = NoConfig
    /\ template = ""
    /\ error = "none"
    /\ cpc = "idle"

PipeIdle ==
    /\ pc = "idle"
    /\ stages = NoConfig
    /\ files = NoConfig
    /\ saved = NoConfig
    /\ cclient = "idle"

StreamIdle ==
    /\ llm = NoClient
    /\ on_delta = FALSE
    /\ events = <<>>
    /\ full = <<>>
    /\ sink = <<>>
    /\ calls = 0
    /\ result = NoResult
    /\ spc = "idle"

Init ==
    /\ outline \in Outlines
    /\ titles = <<>>
    /\ toc = <<>>
    /\ done = {}
    /\ ConfigIdle
    /\ queries = <<>>
    /\ PipeIdle
    /\ StreamIdle
    /\ typed = NoInput

\* titles = extract_chapter_titles(outline)
ExtractTitles ==
    /\ "extract" \notin done
    /\ titles' = extract_chapter_titles(outline)
    /\ done' = done \cup {"extract"}
    /\ UNCHANGED <<outline, toc, queries>>
    /\ UNCHANGED configVars
    /\ UNCHANGED <<pipeVars, streamVars, typed>>

\* toc = stage_3_toc(outline, llm_client)
Stage3 ==
    /\ "stage_3" \notin done
    /\ toc' = stage_3_toc(outline)
    /\ done' = done \cup {"stage_3"}
    /\ UNCHANGED <<outline, titles, queries>>
    /\ UNCHANGED configVars
    /\ UNCHANGED <<pipeVars, streamVars, typed>>

Next == ExtractTitles \/ Stage3

Spec == Init /\ [][Next]_vars

-----------------------------------------------------------------------------
(* main up to the pipeline: the configuration is built from the topic or   *)
(* loaded from a file, then a template is applied                          *)

InitConfig ==
    /\ topic \in Topics
    /\ client \in {"none", "backend"}
    /\ reply = NoReply
    /\ config = NoConfig
    /\ prior = NoConfig
    /\ template = ""
    /\ error = "none"
    /\ cpc = "start"
    /\ ExtractIdle
    /\ StreamIdle
    /\ typed = NoInput
    /\ done = {}
    /\ queries = <<>>
    /\ PipeIdle

\* the caller's state once generate_config_from_topic has returned r.config
\* or raised r.raised
Returned(gen, r) ==
    /\ reply' = gen
    /\ config' = r.config
    /\ error' = r.raised
    /\ cpc' = IF r.raised = "none" THEN "built" ELSE "raised"

\* config = generate_config_from_topic(args.topic, llm_client)
BuildConfig ==
    /\ cpc = "start"
    /\ \E gen \in IF client = "none" THEN {NoReply} ELSE Generates :
           Returned(gen, generate_config_from_topic(topic, client, gen))
    /\ UNCHANGED <<topic, client, prior, template>>
    /\ UNCHANGED <<extractVars, done, queries>>
    /\ UNCHANGED <<pipeVars, streamVars, typed>>

\* config = yaml.safe_load(f)
LoadConfig ==
    /\ cpc = "start"
    /\ \E f \in ConfigFiles : config' = f
    /\ cpc' = "loaded"
    /\ UNCHANGED <<topic, client, reply, prior, template, error>>
    /\ UNCHANGED <<extractVars, done, queries>>
    /\ UNCHANGED <<pipeVars, streamVars, typed>>

\* config = apply_template_defaults(config, selected_template); prior keeps
\* the configuration the call was given
ApplyTemplate ==
    /\ cpc \in {"built", "loaded", "templated"}
    /\ \E t \in Templates :
           /\ template' = t
           /\ config' = apply_template_defaults(config, t)
    /\ prior' = config
    /\ cpc' = "templated"
    /\ UNCHANGED <<topic, client, reply, error>>
    /\ UNCHANGED <<extractVars, done, queries>>
    /\ UNCHANGED <<pipeVars, streamVars, typed>>

NextConfig == BuildConfig \/ LoadConfig \/ ApplyTemplate

SpecConfig == InitConfig /\ [][NextConfig]_vars

-----------------------------------------------------------------------------
(* Stage 1 as an operation on one configuration *)

InitStage1 ==
    /\ config \in Stage1Configs
    /\ client \in {"none", "backend"}
    /\ reply = NoReply
    /\ queries = <<>>
    /\ error = "none"
    /\ cpc = "configured"
    /\ topic = <<>>
    /\ prior = NoConfig
    /\ template = ""
    /\ ExtractIdle
    /\ StreamIdle
    /\ typed = NoInput
    /\ done = {}
    /\ PipeIdle

\* the caller's state once stage_1_seo_queries has returned r.queries or
\* raised r.raised
Stage1Returned(gen, r) ==
    /\ reply' = gen
    /\ queries' = r.queries
    /\ error' = r.raised

\* queries = stage_1_seo_queries(config, llm_client)
Stage1 ==
    /\ "stage_1" \notin done
    /\ \E gen \in IF client = "none" THEN {NoReply} ELSE Streams :
           Stage1Returned(gen, stage_1_seo_queries(config, client, gen))
    /\ done' = done \cup {"stage_1"}
    /\ UNCHANGED <<topic, client, config, prior, template, cpc>>
    /\ UNCHANGED extractVars
    /\ UNCHANGED <<pipeVars, streamVars, typed>>

NextStage1 == Stage1

SpecStage1 == InitStage1 /\ [][NextStage1]_vars

-----------------------------------------------------------------------------
(* Configurations, outline files and backends Stage 4 is run on *)

MaxScript == 2

Txt_Body ==
    <<"B", "o", "d", "y", ".">>
Txt_BodyPadded ==
    <<" ", "B", "o", "d", "y", ".", NL>>
Txt_Spaces ==
    <<" ", NL>>

\* what one call of llm_client.stream_generate can do
ChapterOutcomes ==
    {[kind |-> "text", toks |-> t] :
         t \in {Txt_Body, Txt_BodyPadded, Txt_Spaces, <<>>}}
    \cup {[kind |-> "none", toks |-> <<>>], [kind |-> "raise", toks |-> <<>>]}
Scripts == SeqsUpTo(ChapterOutcomes, MaxScript) \ {<<>>}

\* the outline files: none, an empty one, outlines with and without
\* extractable headings
Stage4Outlines ==
    {<<>>,
     Join(<<Ln_Colon, Ln_Prose, Ln_Colon>>, <<NL>>),
     Join(<<Ln_Alpha, Ln_Beta, Ln_Gamma>>, <<NL>>),
     Join(<<Ln_X, Ln_Sub, Ln_XAgain, Ln_LowerX>>, <<NL>>),
     Join(<<Ln_Blank, Ln_Dots>>, <<NL>>)}
Stage4Files ==
    {NoConfig} \cup {[n \in {OutlineFile} |-> o] : o \in Stage4Outlines}

Stage4Base == [output_dir |-> OutputDir] @@ WithSystemDefaults(BackendConfig)
Stage4Configs ==
    {Stage4Base,
     [num_chapters |-> 0] @@ Stage4Base,
     [num_chapters |-> 3] @@ Stage4Base,
     [num_chapters |-> 12] @@ Stage4Base,
     [k \in DOMAIN Stage4Base \ {"num_chapters"} |-> Stage4Base[k]],
     WithSystemDefaults(BackendConfig)}

-----------------------------------------------------------------------------
(* Stage 4 as an operation on one configuration and output directory *)

InitStage4 ==
    /\ config \in Stage4Configs
    /\ files \in Stage4Files
    /\ client \in {"none", "backend"}
    /\ reply = NoReply
    /\ stages = NoConfig
    /\ error = "none"
    /\ pc = "stage_4"
    /\ cpc = "idle"
    /\ saved = NoConfig
    /\ cclient = "idle"
    /\ topic = <<>>
    /\ prior = NoConfig
    /\ template = ""
    /\ queries = <<>>
    /\ ExtractIdle
    /\ StreamIdle
    /\ typed = NoInput
    /\ done = {}

\* the caller's state once stage_4_chapters has returned r.chapters or
\* raised r.raised
Stage4Returned(r) ==
    /\ stages' = IF r.raised = "none"
                 THEN [stage_4 |-> r.chapters] @@ stages
                 ELSE stages
    /\ error' = r.raised

\* chapters = stage_4_chapters(config, queries, llm_client)
Stage4Call ==
    /\ "stage_4" \notin done
    /\ \E script \in IF client = "none" THEN {<<>>} ELSE Scripts :
           /\ reply' = [kind |-> "script", toks |-> script]
           /\ Stage4Returned(stage_4_chapters(config, files, client, script))
    /\ done' = done \cup {"stage_4"}
    /\ UNCHANGED <<topic, client, config, prior, template, cpc, queries>>
    /\ UNCHANGED <<extractVars, pc, files, saved, cclient, streamVars, typed>>

NextStage4 == Stage4Call

SpecStage4 == InitStage4 /\ [][NextStage4]_vars

-----------------------------------------------------------------------------
(* main: from the configuration source to the hand-over to the pipeline *)

\* what the user types at the menu and as a new value
ChoiceInputs ==
    {<<"0">>, <<" ", "9", " ">>, <<"2">>, <<"5">>, <<"1", "1">>,
     <<"-", "1">>, <<"x">>, <<>>}
ValueInputs ==
    {<<>>, <<"0">>, <<"-", "5">>, <<" ", "c", "a", "l", "m", " ">>}

\* the template names main can select (argparse choices, the menu)
MainTemplates == {"standard", "quickstart", "deepdive"}

MainTopics == {Topic_WeightLoss, Topic_Blank}

InitMain ==
    /\ topic \in MainTopics
    /\ client \in {"none", "backend"}
    /\ reply = NoReply
    /\ config = NoConfig
    /\ prior = NoConfig
    /\ template = ""
    /\ error = "none"
    /\ cpc = "start"
    /\ ExtractIdle
    /\ StreamIdle
    /\ typed = NoInput
    /\ done = {}
    /\ queries = <<>>
    /\ PipeIdle

\* the caller's state after one pass of the editor's loop
Passed(r) ==
    /\ config' = r.config
    /\ error' = r.raised
    /\ cpc' = IF r.raised # "none" THEN cpc
              ELSE IF r.more THEN "editing" ELSE "reviewed"

\* config = edit_config_interactive(config), one pass of its loop
EditPass ==
    /\ cpc \in {"templated", "editing"}
    /\ template \in MainTemplates
    /\ error = "none"
    /\ \E confirm \in BOOLEAN, choice \in ChoiceInputs, text \in ValueInputs :
           Passed(edit_config_pass(config, confirm, choice, text))
    /\ UNCHANGED <<topic, client, reply, prior, template>>
    /\ UNCHANGED <<extractVars, done, queries>>
    /\ UNCHANGED <<pipeVars, streamVars, typed>>

\* save_config(config, output_dir), after the editor or, with --auto,
\* right after the template; the configuration is the one execute_pipeline
\* is then called with
SaveConfig ==
    /\ \/ cpc = "reviewed"
       \/ cpc = "templated" /\ template \in MainTemplates
    /\ error = "none"
    /\ saved' = config
    /\ cpc' = "saved"
    /\ UNCHANGED <<topic, client, reply, config, prior, template, error>>
    /\ UNCHANGED <<extractVars, done, queries>>
    /\ UNCHANGED <<pc, stages, files, cclient, streamVars, typed>>

NextMain ==
    \/ BuildConfig
    \/ LoadConfig
    \/ ApplyTemplate
    \/ EditPass
    \/ SaveConfig

SpecMain == InitMain /\ [][NextMain]_vars

-----------------------------------------------------------------------------
(* Configurations and backends the pipeline is run on *)

\* the configuration main builds without a backend for the topic and hands
\* over under the given template
BuiltConfig(t, name) ==
    apply_template_defaults(
        WithSystemDefaults(generate_default_config(t).config), name)

PipelineConfigs ==
    {BuiltConfig(Topic_WeightLoss, "standard"),
     BuiltConfig(Topic_Sleep, "quickstart"),
     apply_template_defaults(WithSystemDefaults(BackendConfig), "quickstart"),
     WithSystemDefaults(BackendConfig),
     [num_chapters |-> 0] @@ WithSystemDefaults(BackendConfig),
     [intro_min_words |-> 0]
         @@ apply_template_defaults(WithSystemDefaults(BackendConfig),
                                    "quickstart"),
     File_Part}

\* what the stream_generate calls of Stages 1, 2 and 4 can do on a backend
\* other than the substitute
PipeQueryStreams ==
    {[kind |-> "text", toks |-> Join(<<Txt_a, Txt_b_padded, Txt_a>>, <<NL>>)],
     [kind |-> "raise", toks |-> <<>>]}
PipeOutlineStreams ==
    {[kind |-> "text", toks |-> Join(<<Ln_Alpha, Ln_Beta, Ln_Gamma>>, <<NL>>)],
     [kind |-> "text", toks |-> Join(<<Ln_Colon, Ln_Prose>>, <<NL>>)],
     [kind |-> "text", toks |-> <<>>],
     [kind |-> "raise", toks |-> <<>>]}
PipeScripts ==
    {<<[kind |-> "text", toks |-> Txt_Body]>>,
     <<[kind |-> "text", toks |-> Txt_Spaces],
       [kind |-> "text", toks |-> Txt_BodyPadded]>>,
     <<[kind |-> "text", toks |-> Txt_Body],
       [kind |-> "raise", toks |-> <<>>]>>}

\* config['topic'] where the key exists
TopicOf(cfg) == IF "topic" \in DOMAIN cfg THEN cfg.topic ELSE <<>>

\* the outcomes of one stream_generate call of a stage: none without a
\* client, the fixed text for the substitute, backend otherwise
Outcomes(cl, kind, v, backend) ==
    IF cl = "none" THEN {NoReply}
    ELSE IF cl = "mock"
    THEN {[kind |-> "text", toks |-> MockGenerate(kind, v)]}
    ELSE backend

\* the calls of Stage 4: the substitute answers every chapter prompt alike
\* (its outlines give no titles, so the titles in the prompts are
\* 'Chapter i')
ScriptsOf(cl, v) ==
    IF cl = "none" THEN {<<>>}
    ELSE IF cl = "mock"
    THEN {<<[kind |-> "text", toks |-> MockGenerate("stage_4", v)]>>}
    ELSE PipeScripts

-----------------------------------------------------------------------------
(* execute_pipeline *)

\* the state after a stage: its output is recorded and saved and the next
\* stage is reached, or the exception leaves execute_pipeline
StageEnd(name, next, raised, out, fs) ==
    /\ error' = raised
    /\ pc' = IF raised = "none" THEN next ELSE pc
    /\ stages' = IF raised = "none" THEN (name :> out) @@ stages ELSE stages
    /\ files' = IF raised = "none" THEN fs ELSE files

\* what no step of execute_pipeline or compile_ebook changes
mainVars ==
    <<topic, client, prior, template, cpc, queries, done, saved, outline,
      titles, toc, streamVars, typed>>

Running(at) == pc = at /\ error = "none"

Stage1End(gen, r) ==
    /\ reply' = gen
    /\ StageEnd("stage_1", "stage_2", r.raised, r.queries,
                save_stage_output(files, QueriesFile,
                                  Join(r.queries, <<NL>>)))

\* Stage 1 and the save of stage_1_queries.txt
PipeStage1 ==
    /\ Running("stage_1")
    /\ \E gen \in Outcomes(client, "stage_1", TopicOf(config),
                           PipeQueryStreams) :
           Stage1End(gen, stage_1_seo_queries(config, client, gen))
    /\ UNCHANGED <<mainVars, config, cclient>>

Stage2End(gen, r) ==
    /\ reply' = gen
    /\ StageEnd("stage_2", "stage_3", r.raised, r.outline,
                save_stage_output(files, OutlineFile, r.outline))
    /\ config' = IF r.raised = "none"
                 THEN ("output_dir" :> OutputDir) @@ config
                 ELSE config

\* Stage 2, the save of stage_2_outline.md and
\* config['output_dir'] = str(output_dir)
PipeStage2 ==
    /\ Running("stage_2")
    /\ \E gen \in Outcomes(client, "stage_2", TopicOf(config),
                           PipeOutlineStreams) :
           Stage2End(gen, stage_2_outline(config, client, gen))
    /\ UNCHANGED <<mainVars, cclient>>

Stage3End(t) ==
    StageEnd("stage_3", "stage_4", "none", t,
             save_stage_output(files, TocFile, t))

\* Stage 3 on the outline in memory and the save of stage_3_toc.md
PipeStage3 ==
    /\ Running("stage_3")
    /\ Stage3End(stage_3_toc(stages.stage_2))
    /\ UNCHANGED <<mainVars, reply, config, cclient>>

Stage4End(script, r) ==
    /\ reply' = [kind |-> "script", toks |-> script]
    /\ StageEnd("stage_4", "stage_5", r.raised, r.chapters,
                SaveChapters(files, r.chapters, 1))

\* Stage 4 on the outline file and the saves of stage_4_chapter_<i>.md
PipeStage4 ==
    /\ Running("stage_4")
    /\ \E script \in ScriptsOf(client, TopicOf(config)) :
           Stage4End(script, stage_4_chapters(config, files, client, script))
    /\ UNCHANGED <<mainVars, config, cclient>>

Stage5End(chs) ==
    StageEnd("stage_5", "stage_6", "none", chs, SaveOptimized(files, chs, 1))

\* Stage 5 and the saves of stage_5_optimized_chapter_<i>.md
PipeStage5 ==
    /\ Running("stage_5")
    /\ Stage5End(stage_5_optimize(stages.stage_4))
    /\ UNCHANGED <<mainVars, reply, config, cclient>>

Stage6End(r) ==
    StageEnd("stage_6", "stage_7", r.raised, r.out,
             save_stage_output(files, CoverFile, r.out))

\* Stage 6 on the first optimized chapter and the save of the cover prompt
PipeStage6 ==
    /\ Running("stage_6")
    /\ Stage6End(stage_6_cover(config, stages.stage_5))
    /\ UNCHANGED <<mainVars, reply, config, cclient>>

Stage7End(es) ==
    StageEnd("stage_7", "stage_8", "none", es,
             save_stage_output(files, ElementsFile, JsonElements(es)))

\* Stage 7 and the save of its records
PipeStage7 ==
    /\ Running("stage_7")
    /\ Stage7End(stage_7_interactive(stages.stage_5))
    /\ UNCHANGED <<mainVars, reply, config, cclient>>

Stage8End(ps) ==
    StageEnd("stage_8", "stage_9", "none", ps,
             save_stage_output(files, DiagramsFile, JsonPrompts(ps)))

\* Stage 8 and the save of its records
PipeStage8 ==
    /\ Running("stage_8")
    /\ Stage8End(stage_8_diagrams(stages.stage_5))
    /\ UNCHANGED <<mainVars, reply, config, cclient>>

Stage9End(ps) ==
    StageEnd("stage_9", "compile", "none", ps,
             save_stage_output(files, BackgroundsFile, JsonPrompts(ps)))

\* Stage 9 and the save of its records
PipeStage9 ==
    /\ Running("stage_9")
    /\ Stage9End(stage_9_backgrounds(stages.stage_5))
    /\ UNCHANGED <<mainVars, reply, config, cclient>>

\* ebook_path = compile_ebook(results, output_dir): no client is passed
CallCompiler ==
    /\ Running("compile")
    /\ cclient' = "none"
    /\ pc' = "c_title"
    /\ UNCHANGED <<mainVars, reply, config, error, stages, files>>

\* the write of generation_metadata.json once compile_ebook has returned
WriteMetadata ==
    /\ Running("compiled")
    /\ files' = (MetadataFile :> Metadata(config)) @@ files
    /\ pc' = "done"
    /\ UNCHANGED <<mainVars, reply, config, error, stages, cclient>>

-----------------------------------------------------------------------------
(* compile_ebook, write by write *)

\* what a streamed section's call can do on a backend other than the
\* substitute
SectionStreams ==
    {[kind |-> "text", toks |-> Txt_BodyPadded],
     [kind |-> "raise", toks |-> <<>>]}

SectionOutcomes(cl) ==
    IF SectionClient(cl) = "mock" THEN {NoReply} ELSE SectionStreams

\* the exception of a section's call, when the section is rendered
SectionRaised(cfg, lo, hi, cl, gen) ==
    IF Renders(cfg, lo, hi) /\ SectionClient(cl) # "mock"
       /\ gen.kind = "raise"
    THEN "BackendError"
    ELSE "none"

\* f.write of the pieces, one after the other
Written(fs, pieces) == (EbookFile :> (fs[EbookFile] \o pieces)) @@ fs

\* the state after the writes of one part of the document, or after the
\* exception that left compile_ebook before them
CompileStep(raised, pieces, next) ==
    /\ error' = raised
    /\ pc' = IF raised = "none" THEN next ELSE pc
    /\ files' = IF raised = "none" THEN Written(files, pieces) ELSE files

\* open(ebook_path, 'w') and the title page; a key the page reads may be
\* missing
TitleRaised(cfg) ==
    IF {"topic", "target_audience"} \subseteq DOMAIN cfg THEN "none"
    ELSE "KeyError"
TitleWritten(cfg) ==
    IF "topic" \notin DOMAIN cfg THEN <<>>
    ELSE IF "target_audience" \notin DOMAIN cfg
    THEN SubSeq(TitlePieces([target_audience |-> ""] @@ cfg), 1, 1)
    ELSE TitlePieces(cfg)

CompileTitle ==
    /\ Running("c_title")
    /\ error' = TitleRaised(config)
    /\ pc' = IF TitleRaised(config) = "none" THEN "c_intro" ELSE pc
    /\ files' = (EbookFile :> TitleWritten(config)) @@ files
    /\ UNCHANGED <<mainVars, reply, config, stages, cclient>>

CompileIntro ==
    /\ Running("c_intro")
    /\ \E gen \in SectionOutcomes(cclient) :
           /\ reply' = gen
           /\ CompileStep(SectionRaised(config, "intro_min_words",
                                        "intro_max_words", cclient, gen),
                          IntroPieces(config, cclient, gen), "c_toc")
    /\ UNCHANGED <<mainVars, config, stages, cclient>>

CompileToc ==
    /\ Running("c_toc")
    /\ CompileStep("none", TocPieces(stages), "c_chapters")
    /\ UNCHANGED <<mainVars, reply, config, stages, cclient>>

CompileChapters ==
    /\ Running("c_chapters")
    /\ CompileStep("none", OptimizedPieces(stages), "c_final")
    /\ UNCHANGED <<mainVars, reply, config, stages, cclient>>

CompileFinal ==
    /\ Running("c_final")
    /\ \E gen \in SectionOutcomes(cclient) :
           /\ reply' = gen
           /\ CompileStep(SectionRaised(config, "final_min_words",
                                        "final_max_words", cclient, gen),
                          FinalPieces(config, cclient, gen), "c_review")
    /\ UNCHANGED <<mainVars, config, stages, cclient>>

CompileReview ==
    /\ Running("c_review")
    /\ \E gen \in SectionOutcomes(cclient) :
           /\ reply' = gen
           /\ CompileStep(SectionRaised(config, "review_min_words",
                                        "review_max_words", cclient, gen),
                          ReviewPieces(config, cclient, gen), "c_appendix")
    /\ UNCHANGED <<mainVars, config, stages, cclient>>

\* the appendix; the file is closed and ebook_path returned
CompileAppendix ==
    /\ Running("c_appendix")
    /\ CompileStep("none", AppendixPieces(stages), "compiled")
    /\ UNCHANGED <<mainVars, reply, config, stages, cclient>>

-----------------------------------------------------------------------------
(* execute_pipeline on a configuration main has saved *)

InitPipeline ==
    /\ config \in PipelineConfigs
    /\ saved = config
    /\ client \in {"none", "mock", "backend"}
    /\ cpc = "saved"
    /\ pc = "stage_1"
    /\ stages = NoConfig
    /\ files = NoConfig
    /\ cclient = "idle"
    /\ reply = NoReply
    /\ error = "none"
    /\ queries = <<>>
    /\ topic = <<>>
    /\ prior = NoConfig
    /\ template = ""
    /\ ExtractIdle
    /\ StreamIdle
    /\ typed = NoInput
    /\ done = {}

NextPipeline ==
    \/ PipeStage1
    \/ PipeStage2
    \/ PipeStage3
    \/ PipeStage4
    \/ PipeStage5
    \/ PipeStage6
    \/ PipeStage7
    \/ PipeStage8
    \/ PipeStage9
    \/ CallCompiler
    \/ CompileTitle
    \/ CompileIntro
    \/ CompileToc
    \/ CompileChapters
    \/ CompileFinal
    \/ CompileReview
    \/ CompileAppendix
    \/ WriteMetadata

SpecPipeline == InitPipeline /\ [][NextPipeline]_vars

-----------------------------------------------------------------------------
(* compile_ebook called on results of its caller's choice *)

Txt_Alpha == <<"A", "l", "p", "h", "a">>
Txt_Beta == <<"B", "e", "t", "a">>
Txt_Gamma == <<"G", "a", "m", "m", "a">>

Txt_ChapterOne ==
    ChapterHeading(1, Txt_Alpha) \o <<NL, NL>> \o Txt_Body
Txt_ChapterTwo ==
    ChapterHeading(2, Txt_Beta) \o <<NL, NL>> \o Txt_Empty

\* results['stages'] as the stages leave it for the chapters
ResultsFor(ol, chs) ==
    [stage_3 |-> stage_3_toc(ol),
     stage_5 |-> stage_5_optimize(chs),
     stage_7 |-> stage_7_interactive(chs)]

\* a mapping without one of its keys
Without(f, key) == [k \in DOMAIN f \ {key} |-> f[k]]

FullResults ==
    ResultsFor(Join(<<Ln_Alpha, Ln_Beta>>, <<NL>>),
               <<Txt_ChapterOne, Txt_ChapterTwo>>)
CompileResults ==
    {FullResults,
     ResultsFor(<<>>, <<>>),
     ResultsFor(Join(<<Ln_Gamma>>, <<NL>>), <<Txt_ChapterOne>>),
     Without(FullResults, "stage_3"),
     Without(FullResults, "stage_5"),
     Without(FullResults, "stage_7"),
     NoConfig}

QuickConfig ==
    apply_template_defaults(WithSystemDefaults(BackendConfig), "quickstart")
CompileConfigs ==
    {QuickConfig,
     BuiltConfig(Topic_WeightLoss, "standard"),
     WithSystemDefaults(BackendConfig),
     [intro_min_words |-> 0] @@ QuickConfig,
     [review_max_words |-> 0] @@ QuickConfig,
     Without(QuickConfig, "final_max_words"),
     Without(QuickConfig, "target_audience"),
     Without(QuickConfig, "topic")}

InitCompile ==
    /\ config \in CompileConfigs
    /\ stages \in CompileResults
    /\ cclient \in {"none", "mock", "backend"}
    /\ pc = "c_title"
    /\ files = NoConfig
    /\ saved = NoConfig
    /\ client = "none"
    /\ cpc = "idle"
    /\ reply = NoReply
    /\ error = "none"
    /\ queries = <<>>
    /\ topic = <<>>
    /\ prior = NoConfig
    /\ template = ""
    /\ ExtractIdle
    /\ StreamIdle
    /\ typed = NoInput
    /\ done = {}

NextCompile ==
    \/ CompileTitle
    \/ CompileIntro
    \/ CompileToc
    \/ CompileChapters
    \/ CompileFinal
    \/ CompileReview
    \/ CompileAppendix

SpecCompile == InitCompile /\ [][NextCompile]_vars

-----------------------------------------------------------------------------
(* stream_generate of the three clients, event by event *)

\* what no step of stream_generate changes
notStream == <<extractVars, configVars, pipeVars, done, queries, typed>>

\* the call llm_client.stream_generate(prompt, on_delta=...): the stream of
\* MockClient has no events, since it is never opened
InitStream ==
    /\ llm \in Clients
    /\ on_delta \in BOOLEAN
    /\ events \in IF llm.class \in Providers
                   THEN SeqsUpTo(StreamEvents, MaxEvents) ELSE {<<>>}
    /\ full = <<>>
    /\ sink = <<>>
    /\ calls = 0
    /\ result = NoResult
    /\ spc = "called"
    /\ typed = NoInput
    /\ ExtractIdle
    /\ ConfigIdle
    /\ PipeIdle
    /\ done = {}
    /\ queries = <<>>

\* the method the call is bound to: the provider's own, with full = [],
\* or the one inherited from LLMClient
StreamEnter ==
    /\ spc = "called"
    /\ spc' = IF llm.class \in Providers THEN "native" ELSE "default"
    /\ UNCHANGED <<llm, on_delta, events, full, sink, calls, result>>
    /\ UNCHANGED notStream

\* one pass of 'for event in stream': a delta with text is appended to full
\* and handed to on_delta, any other event is skipped
StreamEvent ==
    /\ spc = "native"
    /\ events # <<>>
    /\ Head(events).kind # "raise"
    /\ events' = Tail(events)
    /\ full' = IF Head(events).kind = "text"
                  THEN Append(full, Head(events).text) ELSE full
    /\ sink' = IF Head(events).kind = "text"
                  THEN Deliver(sink, on_delta, Head(events).text) ELSE sink
    /\ UNCHANGED <<llm, on_delta, calls, result, spc>>
    /\ UNCHANGED notStream

\* the stream is exhausted: return ''.join(full)
StreamEnd ==
    /\ spc = "native"
    /\ events = <<>>
    /\ result' = TextOf(Concat(full))
    /\ spc' = "returned"
    /\ UNCHANGED <<llm, on_delta, events, full, sink, calls>>
    /\ UNCHANGED notStream

\* 'except Exception: return super().stream_generate(...)': the exception
\* ends the iteration, and the inherited method is called with the same sink
StreamRaise ==
    /\ spc = "native"
    /\ events # <<>>
    /\ Head(events).kind = "raise"
    /\ events' = <<>>
    /\ spc' = "default"
    /\ UNCHANGED <<llm, on_delta, full, sink, calls, result>>
    /\ UNCHANGED notStream

\* LLMClient.stream_generate: text = self.generate(prompt); if on_delta:
\* on_delta(text); return text.  An exception of generate is not caught.
DefaultStream ==
    /\ spc = "default"
    /\ calls' = calls + 1
    /\ IF llm.gen.kind = "raise"
       THEN /\ result' = Raises
            /\ spc' = "raised"
            /\ sink' = sink
       ELSE /\ result' = llm.gen
            /\ spc' = "returned"
            /\ sink' = Deliver(sink, on_delta, llm.gen.text)
    /\ UNCHANGED <<llm, on_delta, events, full>>
    /\ UNCHANGED notStream

NextStream ==
    \/ StreamEnter
    \/ StreamEvent
    \/ StreamEnd
    \/ StreamRaise
    \/ DefaultStream

SpecStream == InitStream /\ [][NextStream]_vars

-----------------------------------------------------------------------------
(* edit_config_interactive run on its own, pass by pass, with what the     *)
(* user types kept                                                         *)

\* the configurations the editor is given: built from a topic or loaded
\* from a file, a complete one and one that lacks keys, under a template
EditorConfigs ==
    {BuiltConfig(Topic_WeightLoss, "standard"),
     apply_template_defaults(File_Plain, "deepdive"),
     apply_template_defaults(File_Part, "quickstart")}

InitEditor ==
    /\ config \in EditorConfigs
    /\ cpc = "templated"
    /\ typed = NoInput
    /\ topic = <<>>
    /\ client = "none"
    /\ reply = NoReply
    /\ prior = NoConfig
    /\ template = ""
    /\ error = "none"
    /\ ExtractIdle
    /\ StreamIdle
    /\ done = {}
    /\ queries = <<>>
    /\ PipeIdle

\* one pass of the loop of edit_config_interactive(config); the loop has
\* ended once cpc is "reviewed" or an exception has left it
EditorPass ==
    /\ cpc \in {"templated", "editing"}
    /\ error = "none"
    /\ \E confirm \in BOOLEAN, choice \in ChoiceInputs, text \in ValueInputs :
           /\ typed' = Typed(confirm, choice, text)
           /\ Passed(edit_config_pass(config, confirm, choice, text))
    /\ UNCHANGED <<topic, client, reply, prior, template>>
    /\ UNCHANGED <<extractVars, done, queries>>
    /\ UNCHANGED <<pipeVars, streamVars>>

NextEditor == EditorPass

SpecEditor == InitEditor /\ [][NextEditor]_vars

-----------------------------------------------------------------------------
(* The heading form, stated from its description rather than computed by   *)
(* the matcher: [marker]Chapter <digits> <separator> <title>               *)

\* every character of s at positions lo..hi belongs to S
Run(s, lo, hi, S) == \A k \in lo..hi : s[k] \in S

\* nothing, or 2 to 6 '#' and whitespace, or one '-' or '*' and whitespace:
\* whether the first m characters of s are such a marker
FormMarker(s, m) ==
    \/ m = 0
    \/ \E h \in 2..6 :
          m > h /\ Run(s, 1, h, {"#"}) /\ Run(s, h + 1, m, Whitespace)
    \/ m >= 2 /\ s[1] \in {"-", "*"} /\ Run(s, 2, m, Whitespace)

\* the word 'Chapter' in any mix of cases, after the first m characters
FormWord(s, m) ==
    /\ m + 7 <= Len(s)
    /\ s[m + 1] \in {"C", "c"} /\ s[m + 2] \in {"H", "h"}
    /\ s[m + 3] \in {"A", "a"} /\ s[m + 4] \in {"P", "p"}
    /\ s[m + 5] \in {"T", "t"} /\ s[m + 6] \in {"E", "e"}
    /\ s[m + 7] \in {"R", "r"}

\* the titles a trimmed line of the form carries: every way of cutting the
\* line into marker, word, blanks, digits, blanks, separator, blanks, title
FormTitles(line) ==
    LET n  == Len(line)
        \* where the word can end
        Ws == {m + 7 : m \in {m \in 0..n : FormWord(line, m)
                                            /\ FormMarker(line, m)}}
        \* where the digits can start, after one or more blanks
        As == {a \in 1..n : \E w \in Ws :
                  a > w /\ Run(line, w + 1, a, Whitespace)}
        \* where the digits can end
        Bs == {b \in 1..n : \E a \in As :
                  b > a /\ Run(line, a + 1, b, Digits)}
        \* where the separator can be, after blanks or none
        Cs == {c \in 1..n : /\ line[c] \in {"-", EnDash, EmDash}
                            /\ \E b \in Bs :
                                  c > b /\ Run(line, b + 1, c - 1, Whitespace)}
        \* where the title can start, after blanks or none
        Ts == {t \in 1..n : /\ line[t] \notin Whitespace
                            /\ \E c \in Cs :
                                  t > c /\ Run(line, c + 1, t - 1, Whitespace)}
    IN  IF Ws = {} THEN {} ELSE {Drop(line, t - 1) : t \in Ts}

HasForm(line) == FormTitles(line) # {}

\* the trimmed lines of a text
TrimmedLines(text) ==
    LET ls == splitlines(text) IN Tuple([i \in 1..Len(ls) |-> Strip(ls[i])])

\* a title beginning with <digits>.<digits>
SubNumberPrefix(t) ==
    \E a \in 1..Len(t) : \E b \in (a + 2)..Len(t) :
        /\ AllIn(SubSeq(t, 1, a), Digits)
        /\ t[a + 1] = "."
        /\ AllIn(SubSeq(t, a + 2, b), Digits)

NoDuplicates(s) == \A i, j \in 1..Len(s) : s[i] = s[j] => i = j

RemoveAt(s, i) == SubSeq(s, 1, i - 1) \o SubSeq(s, i + 1, Len(s))

\* the titles the lines offer, one per accepted line, in line order
RECURSIVE OfferedTitles(_)
OfferedTitles(lines) ==
    IF lines = <<>> THEN <<>>
    ELSE LET t == LineTitle(Head(lines))
         IN  (IF t.ok THEN <<t.title>> ELSE <<>>)
             \o OfferedTitles(Tail(lines))


-----------------------------------------------------------------------------
(* C1..C3, C10 *)

\* C1: the matcher accepts every trimmed line of the form
\* [marker]Chapter <digits> <separator> <title> and captures its title
\* (a long dash read as a dash); and an outline whose lines of that form are
\* '## Chapter 1 - Alpha' (en dash), '### Chapter 2 - Beta' and
\* '- Chapter 3 - Gamma' (en dash), in that order, yields exactly
\* <<Alpha, Beta, Gamma>>.
C1_FormAccepted ==
    LET ls == TrimmedLines(outline)
        formLines == SelectSeq(ls, HasForm)
    IN  /\ \A i \in 1..Len(ls) : \A t \in FormTitles(ls[i]) :
              LET m == MatchHeading(Replace(ls[i], EmDash, EnDash))
              IN  m.matched /\ m.title = Replace(t, EmDash, EnDash)
        /\ ("extract" \in done /\ formLines = <<Ln_Alpha, Ln_Beta, Ln_Gamma>>)
              => titles = <<Txt_Alpha, Txt_Beta, Txt_Gamma>>

\* the three example lines with other lines before, between and after them
C1_Witness ==
    /\ "extract" \in done
    /\ outline = Join(<<Ln_Prose, Ln_Alpha, Ln_OneHash, Ln_Beta, Ln_Blank,
                        Ln_Colon, Ln_Gamma, Ln_Prose>>, <<NL>>)
    /\ titles = <<Txt_Alpha, Txt_Beta, Txt_Gamma>>

\* C2: the returned list holds no title twice, holds exactly the titles the
\* lines offer, and orders them by the first line offering each; 'Chapter 1
\* - X' twice, or again under another chapter number, yields <<X>>.
C2_UniqueFirstSeen ==
    "extract" \in done =>
        LET offered == OfferedTitles(splitlines(outline))
            First(t) == SetMin({i \in 1..Len(offered) : offered[i] = t})
        IN  /\ NoDuplicates(titles)
            /\ \A i \in 1..Len(offered) : InSeq(offered[i], titles)
            /\ \A k \in 1..Len(titles) : InSeq(titles[k], offered)
            /\ \A j, k \in 1..Len(titles) :
                  j < k => First(titles[j]) < First(titles[k])
            /\ outline \in {Join(<<Ln_X, Ln_X>>, <<NL>>),
                            Join(<<Ln_X, Ln_XAgain>>, <<NL>>)}
                  => titles = << <<"X">> >>

\* a title offered again after another title came in between
C2_Witness ==
    /\ "extract" \in done
    /\ outline = Join(<<Ln_X, Ln_Beta, Ln_XAgain>>, <<NL>>)
    /\ titles = << <<"X">>, Txt_Beta >>

\* C3: no returned title begins with <digits>.<digits>, and a line whose
\* captured title begins so can be deleted from the outline without
\* changing the result.
C3_SubNumberGuard ==
    "extract" \in done =>
        LET ls == splitlines(outline)
        IN  /\ \A k \in 1..Len(titles) : ~SubNumberPrefix(titles[k])
            /\ \A i \in 1..Len(ls) :
                  (\E t \in FormTitles(Strip(ls[i])) : SubNumberPrefix(t))
                  => extract_chapter_titles(Join(RemoveAt(ls, i), <<NL>>))
                     = titles

\* the sub-numbered example line between two accepted headings
C3_Witness ==
    /\ "extract" \in done
    /\ outline = Join(<<Ln_Alpha, Ln_Sub, Ln_Beta>>, <<NL>>)
    /\ titles = <<Txt_Alpha, Txt_Beta>>

\* decimal value of a numeral, -1 when it is none
RECURSIVE NumeralValue(_)
NumeralValue(s) ==
    IF s = <<>> \/ ~AllIn(s, Digits) THEN -1
    ELSE LET v == CHOOSE d \in 0..9 : Str(d) = <<s[Len(s)]>>
         IN  IF Len(s) = 1 THEN v
             ELSE 10 * NumeralValue(SubSeq(s, 1, Len(s) - 1)) + v

\* C10: Stage 3 returns the fixed placeholder document when the extractor
\* finds no title in the outline, and otherwise the header, an empty line
\* and one line '<i>. <title>' per extracted title, i counting from 1.
C10_TocDocument ==
    "stage_3" \in done =>
        LET ts == extract_chapter_titles(outline)
            L  == splitlines(toc)
        IN  IF ts = <<>>
            THEN toc = Txt_TocHeader \o <<NL, NL>> \o Txt_NoChapters \o <<NL>>
            ELSE /\ Len(L) = Len(ts) + 2
                 /\ L[1] = Txt_TocHeader
                 /\ L[2] = <<>>
                 /\ toc[Len(toc)] = NL
                 /\ \A i \in 1..Len(ts) :
                       LET d == Span(L[i + 2], 0, Digits)
                       IN  /\ NumeralValue(SubSeq(L[i + 2], 1, d)) = i
                           /\ Drop(L[i + 2], d) = <<".", " ">> \o ts[i]

\* an outline of a 'Chapter 1: Intro' line and a sub-numbered line, which
\* offers no title
C10_Witness ==
    /\ "stage_3" \in done
    /\ outline = Join(<<Ln_Colon, Ln_Sub>>, <<NL>>)
    /\ toc = Txt_TocHeader \o <<NL, NL>> \o Txt_NoChapters \o <<NL>>

-----------------------------------------------------------------------------
(* C4, C5: the Template Applier *)

\* the fixed table of the templates, row by row
TemplateKeys ==
    <<"intro_min_words", "intro_max_words", "num_chapters", "chapter_length",
      "final_min_words", "final_max_words", "review_min_words",
      "review_max_words">>
TemplateTable ==
    [standard   |-> <<600, 900, 5, 1200, 600, 900, 300, 500>>,
     quickstart |-> <<300, 500, 3, 800, 300, 500, 150, 250>>,
     deepdive   |-> <<800, 1200, 8, 2000, 800, 1200, 400, 700>>]

\* C4: after apply_template_defaults with standard, quickstart or deepdive
\* the eight structural keys hold exactly that template's row of the table,
\* whatever the configuration held before, and every *_min_words is at most
\* its *_max_words.
C4_TemplateRow ==
    (cpc = "templated" /\ template \in DOMAIN TemplateTable) =>
        /\ \A i \in 1..Len(TemplateKeys) :
              /\ TemplateKeys[i] \in DOMAIN config
              /\ config[TemplateKeys[i]] = TemplateTable[template][i]
        /\ config.intro_min_words <= config.intro_max_words
        /\ config.final_min_words <= config.final_max_words
        /\ config.review_min_words <= config.review_max_words
        /\ template = "quickstart" =>
              config.num_chapters = 3 /\ config.chapter_length = 800

\* quickstart applied to a loaded configuration whose bounds were inverted
C4_Witness ==
    /\ cpc = "templated"
    /\ template = "quickstart"
    /\ prior = File_Inverted
    /\ prior.intro_min_words > prior.intro_max_words
    /\ config.intro_min_words = 300

\* C5: apply_template_defaults with a name other than standard, quickstart
\* or deepdive returns the configuration with every key and value
\* unchanged, adds no key and raises nothing.
C5_UnknownTemplate ==
    (cpc = "templated"
     /\ template \notin {"standard", "quickstart", "deepdive"}) =>
        /\ DOMAIN config = DOMAIN prior
        /\ \A k \in DOMAIN prior : config[k] = prior[k]
        /\ error = "none"

\* the name 'premium' applied to a configuration built from a topic
C5_Witness ==
    /\ cpc = "templated"
    /\ template = "premium"
    /\ "main_keyword" \in DOMAIN prior
    /\ "intro_min_words" \notin DOMAIN config

-----------------------------------------------------------------------------
(* C6..C8: the Configuration Builder *)

\* the required keys of a configuration
RequiredKeys ==
    {"topic", "main_keyword", "theme", "target_audience", "tone", "mood",
     "distribution_platform", "primary_format", "chapter_length",
     "interactive_elements_included", "min_search_results", "num_chapters"}

\* C6: whenever generate_config_from_topic returns, the configuration has
\* min_search_results = 12000000 and num_chapters = 5, for every topic,
\* with or without a backend, whatever the reply gave for the two keys.
C6_SystemDefaults ==
    cpc = "built" =>
        /\ {"min_search_results", "num_chapters"} \subseteq DOMAIN config
        /\ config.min_search_results = 12000000
        /\ config.num_chapters = 5

\* a reply whose mapping gives other values for the two keys
C6_Witness ==
    /\ cpc = "built"
    /\ client = "backend"
    /\ ParseReply(reply).kind = "dict"
    /\ "min_search_results" \in DOMAIN ParseReply(reply).val
    /\ ParseReply(reply).val.min_search_results # 12000000
    /\ ParseReply(reply).val.num_chapters # 5

\* C7: when the backend's generate call fails with a backend error,
\* generate_config_from_topic does not propagate the error and returns a
\* configuration holding every required key.
C7_BackendFailureSurvived ==
    (cpc \in {"built", "raised"} /\ client = "backend"
     /\ reply.kind = "raise") =>
        /\ error = "none"
        /\ RequiredKeys \subseteq DOMAIN config

\* C8: when the reply, after fence extraction, does not parse into a
\* mapping, generate_config_from_topic does not raise and returns exactly
\* the heuristic default configuration of the topic plus the two system
\* keys.
C8_UnparsableFallsBack ==
    (cpc \in {"built", "raised"} /\ client = "backend"
     /\ reply.kind = "text" /\ ParseReply(reply).kind # "dict") =>
        /\ error = "none"
        /\ config = [min_search_results |-> 12000000, num_chapters |-> 5]
                    @@ generate_default_config(topic).config

-----------------------------------------------------------------------------
(* C9: Stage 1 *)

\* the lines of the backend's reply and those that are not blank
ReplyLines == Split(reply.toks, NL)
NonBlankLines ==
    {i \in 1..Len(ReplyLines) : ~AllIn(ReplyLines[i], Whitespace)}

\* the five templated queries of a keyword
TemplatedQueries(kw) ==
    <<kw,
      kw \o <<" ", "g", "u", "i", "d", "e">>,
      kw \o <<" ", "t", "i", "p", "s">>,
      <<"h", "o", "w", " ", "t", "o", " ">> \o kw,
      kw \o <<" ", "f", "o", "r", " ", "b", "e", "g", "i", "n", "n", "e",
              "r", "s">> >>

-----------------------------------------------------------------------------
(* C11, C12: Stage 4 *)

\* the heading line of a chapter and what follows its blank line
HeadingLine(ch) == Split(ch, NL)[1]
BodyOf(ch) == Drop(ch, Len(HeadingLine(ch)) + 2)

\* the line '# Chapter <i>: <title>'
HeadingText(i, title) ==
    <<"#", " ", "C", "h", "a", "p", "t", "e", "r", " ">> \o Str(i)
    \o <<":", " ">> \o title

\* the synthetic title 'Chapter <i>'
SyntheticTitle(i) == <<"C", "h", "a", "p", "t", "e", "r", " ">> \o Str(i)

\* the text of the outline file Stage 4 looks for, '' when it is missing
PersistedOutline ==
    IF "output_dir" \in DOMAIN config /\ config.output_dir = OutputDir
       /\ OutlineFile \in DOMAIN files
    THEN files[OutlineFile]
    ELSE <<>>

\* C11: stage_4_chapters produces one chapter per title the extractor
\* finds in the persisted outline, in extractor order, headed
\* 'Chapter <i>: <title>' with i from 1; with no title (file missing or
\* empty included) it produces num_chapters chapters (5 when the key is
\* absent) titled 'Chapter 1' .. 'Chapter N', and raises nothing without a
\* backend.
C11_OneChapterPerTitle ==
    "stage_4" \in done =>
        /\ client = "none" => error = "none"
        /\ error = "none" =>
              LET ts  == extract_chapter_titles(PersistedOutline)
                  chs == stages.stage_4
                  n   == IF "num_chapters" \in DOMAIN config
                         THEN config.num_chapters ELSE 5
              IN  IF ts # <<>>
                  THEN /\ Len(chs) = Len(ts)
                       /\ \A i \in 1..Len(ts) :
                             /\ HeadingLine(chs[i]) = HeadingText(i, ts[i])
                             /\ chs[i][Len(HeadingLine(chs[i])) + 1] = NL
                  ELSE /\ Len(chs) = n
                       /\ \A i \in 1..n :
                             HeadingLine(chs[i])
                             = HeadingText(i, SyntheticTitle(i))

\* no outline file in the directory and num_chapters = 3
C11_Witness ==
    /\ "stage_4" \in done
    /\ error = "none"
    /\ client = "backend"
    /\ OutlineFile \notin DOMAIN files
    /\ "num_chapters" \in DOMAIN config
    /\ config.num_chapters = 3
    /\ Len(stages.stage_4) = 3
    /\ HeadingLine(stages.stage_4[3])
       = HeadingText(3, <<"C", "h", "a", "p", "t", "e", "r", " ", "3">>)

\* C12: with a backend no chapter of stage_4_chapters has an empty body
\* after its heading line; an empty streamed result gives the body
\* '(Empty)'.
C12_NoEmptyBody ==
    ("stage_4" \in done /\ error = "none" /\ client = "backend") =>
        \A i \in 1..Len(stages.stage_4) :
            /\ BodyOf(stages.stage_4[i]) # <<>>
            /\ StreamOutcome(reply.toks, i).toks = <<>> =>
                  BodyOf(stages.stage_4[i])
                  = <<"(", "E", "m", "p", "t", "y", ")">>

-----------------------------------------------------------------------------
(* C13: the chapter count and order through Stages 5, 7, 8 and 9 *)

RecordStages == {"stage_7", "stage_8", "stage_9"}

\* C13: in every pipeline run the outputs of Stage 5 and of Stages 7, 8
\* and 9 have as many elements as Stage 4 produced chapters; the i-th
\* optimized chapter is the i-th Stage-4 chapter and the i-th record of
\* Stages 7, 8 and 9 carries chapter = i
C13_CountAndOrderKept ==
    /\ "stage_5" \in DOMAIN stages =>
           /\ Len(stages.stage_5) = Len(stages.stage_4)
           /\ \A i \in 1..Len(stages.stage_4) :
                  stages.stage_5[i] = stages.stage_4[i]
    /\ \A k \in RecordStages \cap DOMAIN stages :
           /\ Len(stages[k]) = Len(stages.stage_4)
           /\ \A i \in 1..Len(stages[k]) : stages[k][i].chapter = i

\* a run that went through Stage 9 with three different chapters
C13_Witness ==
    /\ RecordStages \subseteq DOMAIN stages
    /\ Len(stages.stage_4) = 3
    /\ stages.stage_4[1] # stages.stage_4[2]
    /\ stages.stage_9[3].chapter = 3
    /\ stages.stage_5[2] = stages.stage_4[2]

-----------------------------------------------------------------------------
(* C14: the order of the stages and what a failed run leaves behind *)

CompileSteps ==
    {"compile", "c_title", "c_intro", "c_toc", "c_chapters", "c_final",
     "c_review", "c_appendix"}

\* the place of execute_pipeline in its sequence of steps: Stage k is k,
\* the Compiler 10, the metadata write 11, the return 12
Position(p) ==
    CASE p = "stage_1" -> 1 [] p = "stage_2" -> 2 [] p = "stage_3" -> 3
      [] p = "stage_4" -> 4 [] p = "stage_5" -> 5 [] p = "stage_6" -> 6
      [] p = "stage_7" -> 7 [] p = "stage_8" -> 8 [] p = "stage_9" -> 9
      [] p \in CompileSteps -> 10
      [] p = "compiled" -> 11
      [] p = "done" -> 12

StageKey(k) == <<"stage_1", "stage_2", "stage_3", "stage_4", "stage_5",
                 "stage_6", "stage_7", "stage_8", "stage_9">>[k]

\* the artifacts of step k, with the content step k produced, as far as
\* step k has produced its output
Produced(k) ==
    IF k = 10 THEN {<<EbookFile>>}
    ELSE IF k = 11 THEN {<<MetadataFile>>}
    ELSE IF k = 12 \/ StageKey(k) \notin DOMAIN stages THEN {}
    ELSE CASE k = 1 -> {<<QueriesFile, Join(stages.stage_1, <<NL>>)>>}
           [] k = 2 -> {<<OutlineFile, stages.stage_2>>}
           [] k = 3 -> {<<TocFile, stages.stage_3>>}
           [] k = 4 -> {<<ChapterFile(i), stages.stage_4[i]>> :
                            i \in 1..Len(stages.stage_4)}
           [] k = 5 -> {<<OptimizedFile(i), stages.stage_5[i]>> :
                            i \in 1..Len(stages.stage_5)}
           [] k = 6 -> {<<CoverFile, stages.stage_6>>}
           [] k = 7 -> {<<ElementsFile, JsonElements(stages.stage_7)>>}
           [] k = 8 -> {<<DiagramsFile, JsonPrompts(stages.stage_8)>>}
           [] k = 9 -> {<<BackgroundsFile, JsonPrompts(stages.stage_9)>>}

\* every stage before the point the run has reached has produced its
\* output and each of its artifacts holds it
CompletedArePresent ==
    \A k \in 1..(Position(pc) - 1) :
        /\ k <= 9 => StageKey(k) \in DOMAIN stages
        /\ \A a \in Produced(k) :
               /\ a[1] \in DOMAIN files
               /\ k <= 9 => files[a[1]] = a[2]

\* the directory holds nothing but artifacts of steps up to that point
NothingLater ==
    \A n \in DOMAIN files :
        \E k \in 1..Position(pc) : \E a \in Produced(k) : a[1] = n

\* a step of the run goes to the next step of the sequence or stays in the
\* Compiler, and an exception ends the run
InOrder ==
    /\ error = "none"
    /\ Position(pc') \in {Position(pc), Position(pc) + 1}
    /\ error' # "none" => pc' = pc

\* C14: the stages start in the order 1 to 9, then the Compiler, then the
\* metadata write; at every point of a run, failed or not, the artifacts
\* of the completed stages are present with the content those stages
\* produced and no artifact of a later stage exists
C14_SequentialAndPersisted ==
    /\ pc = "stage_1"
    /\ [](CompletedArePresent /\ NothingLater)
    /\ [][InOrder]_vars

\* a run whose backend failed in Stage 4: the artifacts of Stages 1 to 3
\* are there, no chapter is
C14_Witness ==
    /\ pc = "stage_4"
    /\ error = "BackendError"
    /\ files[TocFile] = stages.stage_3
    /\ Len(files[QueriesFile]) > 0
    /\ Len(extract_chapter_titles(files[OutlineFile])) = 3
    /\ ChapterFile(1) \notin DOMAIN files

-----------------------------------------------------------------------------
(* C15: the order of the blocks of the final document *)

\* the blocks of a document that are no horizontal rules
RECURSIVE NoRules(_)
NoRules(doc) ==
    IF doc = <<>> THEN <<>>
    ELSE (IF Head(doc).blk = "rule" THEN <<>> ELSE <<Head(doc)>>)
         \o NoRules(Tail(doc))

Kinds(doc) == Tuple([i \in 1..Len(doc) |-> doc[i].blk])
Repeat(x, n) == Tuple([i \in 1..n |-> x])
Opt(b, x) == IF b THEN <<x>> ELSE <<>>

\* the kinds of the blocks of a document with n chapters and m element
\* records, with or without each of the three optional sections
Layout(intro, n, final, review, m) ==
    <<"title", "subtitle">> \o Opt(intro, "intro") \o <<"toc">>
    \o Repeat("chapter", n) \o Opt(final, "final") \o Opt(review, "review")
    \o <<"appendix">> \o Repeat("element", m)

StartsWith(s, p) == Len(s) >= Len(p) /\ SubSeq(s, 1, Len(p)) = p

\* the blocks of a kind, in the order of the document
RECURSIVE OfKind(_, _)
OfKind(doc, kind) ==
    IF doc = <<>> THEN <<>>
    ELSE (IF Head(doc).blk = kind THEN <<Head(doc)>> ELSE <<>>)
         \o OfKind(Tail(doc), kind)

\* C15: the document compile_ebook has written consists, in this order and
\* with nothing repeated or out of place, of the title block, the intro
\* when rendered, the table of contents of Stage 3, the optimized chapters
\* in Stage-5 order, the final thoughts and the review request when
\* rendered, and the appendix header followed by one sub-block per
\* interactive-element record in record order
C15_DocumentOrder ==
    pc \in {"compiled", "done"} =>
        LET doc == NoRules(files[EbookFile])
            chs == OfKind(doc, "chapter")
            els == OfKind(doc, "element")
        IN  /\ \E intro, final, review \in BOOLEAN :
                   Kinds(doc) = Layout(intro, Len(stages.stage_5), final,
                                       review, Len(stages.stage_7))
            /\ OfKind(doc, "toc")[1].text = stages.stage_3
            /\ \A i \in 1..Len(chs) :
                   chs[i].text = stages.stage_5[i] \o <<NL, NL>>
            /\ \A j \in 1..Len(els) :
                   StartsWith(els[j].text,
                              <<"## ">> \o stages.stage_7[j].title)

\* a compiled document with all three optional sections and three
\* chapters after a table of contents of three entries
C15_Witness ==
    /\ pc = "done"
    /\ Kinds(NoRules(files[EbookFile])) = Layout(TRUE, 3, TRUE, TRUE, 3)
    /\ Len(extract_chapter_titles(stages.stage_2)) = 3

-----------------------------------------------------------------------------
(* C16: when the optional sections are rendered *)

HasBlock(kind) == OfKind(files[EbookFile], kind) # <<>>
BothPresent(lo, hi) == {lo, hi} \subseteq DOMAIN config

\* C16: compile_ebook renders the intro if and only if both intro bounds
\* are keys of the configuration, and likewise the final thoughts and the
\* review request for their bounds; the values of the keys play no part
C16_PresenceDecides ==
    pc = "compiled" =>
        /\ HasBlock("intro")
               <=> BothPresent("intro_min_words", "intro_max_words")
        /\ HasBlock("final")
               <=> BothPresent("final_min_words", "final_max_words")
        /\ HasBlock("review")
               <=> BothPresent("review_min_words", "review_max_words")

-----------------------------------------------------------------------------
(* C17: the table of contents of a run without backend *)

\* whether a line is a numbered entry: a numeral, a period, a blank
IsEntry(l) ==
    \E k \in 1..(Len(l) - 2) :
        /\ AllIn(SubSeq(l, 1, k), Digits)
        /\ l[k + 1] = "."
        /\ l[k + 2] = " "

\* the numbered entries of a table of contents, in order
RECURSIVE EntriesOf(_)
EntriesOf(ls) ==
    IF ls = <<>> THEN <<>>
    ELSE (IF IsEntry(Head(ls)) THEN <<Head(ls)>> ELSE <<>>)
         \o EntriesOf(Tail(ls))
NumberedEntries(text) == EntriesOf(Split(text, NL))

\* C17: for the topic 'weight loss for beginners', no backend and the
\* standard template, the final document holds a table of contents with
\* exactly num_chapters (5) numbered entries, which name the fallback
\* titles when the outline yields none
C17_FiveTocEntries ==
    (/\ pc = "done"
     /\ client = "none"
     /\ saved = BuiltConfig(Topic_WeightLoss, "standard")) =>
        LET tocs == OfKind(files[EbookFile], "toc")
            entries == NumberedEntries(tocs[1].text)
        IN  /\ Len(tocs) = 1
            /\ Len(entries) = saved.num_chapters
            /\ \A i \in 1..Len(entries) :
                   entries[i] = Str(i) \o <<".", " ">> \o SyntheticTitle(i)

-----------------------------------------------------------------------------
(* C18: whether a partial document can be left behind *)

\* compile_ebook has returned or an exception has left it
CompilerLeft == pc \in {"compiled", "done"} \/ error # "none"

\* the whole document for the configuration and results at hand; the one
\* text a backend other than the substitute streams is Txt_BodyPadded
WholeDocument ==
    compile_ebook(config, stages, cclient,
                  [kind |-> "text", toks |-> Txt_BodyPadded])

\* C18: the final document is written once and never partially: once
\* compile_ebook has returned or failed, also by a failed backend call of
\* a streamed section, the directory holds no FINAL_EBOOK.md or the whole
\* document
C18_NeverPartial ==
    (CompilerLeft /\ EbookFile \in DOMAIN files) =>
        /\ TitleRaised(config) = "none"
        /\ files[EbookFile] = WholeDocument

-----------------------------------------------------------------------------
(* C19: the configuration during the run *)

\* C19: execute_pipeline and its stages never add, remove or change a key
\* of the configuration: at every point of the run the configuration is
\* the one that was saved before the run, and so is the snapshot in
\* generation_metadata.json
C19_ConfigUnchanged ==
    /\ config = saved
    /\ MetadataFile \in DOMAIN files => files[MetadataFile].config = saved

-----------------------------------------------------------------------------
(* C20: the configuration main hands to the pipeline *)

\* C20: every configuration main hands to the Stage Pipeline, after
\* build-from-topic or load-from-file, the template and any interactive
\* edits, has chapter_length > 0, num_chapters > 0 and min <= max for the
\* intro, final and review bounds
C20_HandedConfigValid ==
    cpc = "saved" =>
        /\ saved.chapter_length > 0
        /\ saved.num_chapters > 0
        /\ saved.intro_min_words <= saved.intro_max_words
        /\ saved.final_min_words <= saved.final_max_words
        /\ saved.review_min_words <= saved.review_max_words

-----------------------------------------------------------------------------
(* C21: what stream_generate returns and what it hands to the sink *)

\* the call returned through the method inherited from LLMClient
ThroughDefault == spc = "returned" /\ calls > 0

\* C21: for every client, a stream_generate call that was given a sink
\* returns exactly the concatenation, in delivery order, of the fragments
\* it handed to the sink, also when a provider's stream failed after some
\* fragments and the inherited method took over; the inherited method calls
\* generate exactly once and hands the whole text over as one fragment.
C21_ReturnsWhatItDelivered ==
    /\ (spc = "returned" /\ on_delta) => result.text = Concat(sink)
    /\ ThroughDefault => calls = 1
    /\ (ThroughDefault /\ on_delta) =>
           /\ sink # <<>>
           /\ sink[Len(sink)] = result.text
    /\ (ThroughDefault /\ on_delta /\ llm.class = "MockClient") =>
           sink = <<result.text>>

-----------------------------------------------------------------------------
(* C22: the end of the extracted titles *)

\* the last character of a text that is not empty
LastChar(s) == s[Len(s)]

\* C22: for every outline, no title returned by extract_chapter_titles is
\* the empty string, and none ends with a period or a whitespace character.
C22_TitlesTrimmed ==
    "extract" \in done =>
        \A i \in 1..Len(titles) :
            /\ titles[i] # <<>>
            /\ LastChar(titles[i]) \notin Whitespace \cup {"."}

-----------------------------------------------------------------------------
(* C23: the em dash in outline lines *)

\* the outline with every em dash written as a plain hyphen
Hyphenated(text) == Replace(text, EmDash, "-")

\* C23: extract_chapter_titles treats an em dash as it treats a plain
\* hyphen: the titles of an outline are those of the same outline with
\* every em dash written as a hyphen, so that an em dash after the chapter
\* number is a separator and an em dash inside a title is returned as a
\* hyphen.
C23_EmDashAsHyphen ==
    "extract" \in done =>
        titles = extract_chapter_titles(Hyphenated(outline))

-----------------------------------------------------------------------------
(* C24: the horizontal rules around the chapters *)

\* the places of the chapter blocks in a document
ChapterPlaces(doc) == {k \in 1..Len(doc) : doc[k].blk = "chapter"}

\* the places of the rules between the first and the last chapter
RulesAmong(doc) ==
    {k \in SetMin(ChapterPlaces(doc))..SetMax(ChapterPlaces(doc)) :
         doc[k].blk = "rule"}

\* C24: in the compiled document with n >= 1 optimized chapters, exactly
\* n - 1 horizontal rules stand between the chapters, one between each two
\* consecutive chapters, and the block after the last chapter is not a
\* horizontal rule, whichever optional sections are rendered.
C24_NoRuleAfterLastChapter ==
    (pc = "compiled" /\ ChapterPlaces(files[EbookFile]) # {}) =>
        LET doc == files[EbookFile]
            at == ChapterPlaces(doc)
            last == SetMax(at)
        IN  /\ Cardinality(at) = Len(stages.stage_5)
            /\ Cardinality(RulesAmong(doc)) = Cardinality(at) - 1
            /\ \A k \in at \ {last} :
                   doc[k + 1].blk = "rule" /\ k + 2 \in at
            /\ last < Len(doc) => doc[last + 1].blk # "rule"

-----------------------------------------------------------------------------
(* C25: the chapter structure of Stage 3 and of Stage 4 *)

\* the title the i-th numbered entry of a table of contents names
EntryTitle(entry, i) == Drop(entry, Len(Str(i)) + 2)

\* C25: in every pipeline run Stage 3 and Stage 4 derive the same chapter
\* structure from the outline of Stage 2: the table of contents has as
\* many numbered entries as Stage 4 produces chapters, and entry i names
\* the title the heading of chapter i uses.
C25_SameChapterStructure ==
    "stage_4" \in DOMAIN stages =>
        LET entries == NumberedEntries(stages.stage_3)
            chs == stages.stage_4
        IN  /\ Len(entries) = Len(chs)
            /\ \A i \in 1..Len(entries) :
                   /\ StartsWith(entries[i], Str(i) \o <<".", " ">>)
                   /\ StartsWith(chs[i],
                           ChapterHeading(i, EntryTitle(entries[i], i))
                           \o <<NL>>)

-----------------------------------------------------------------------------
(* C26: the heuristic fallback generate_default_config *)

\* the ten keys of the heuristic default
HeuristicKeys == RequiredKeys \ {"min_search_results", "num_chapters"}

\* the topic holds 'beginner' or 'start', in any case of the letters
BeginnerFlag(t) ==
    \E w \in {Txt_beginner, Txt_start} : Contains(LowerStr(t), w)

\* generate_config_from_topic without a backend has handed the topic to
\* generate_default_config, which returned or raised
FallbackTaken == client = "none" /\ cpc \in {"built", "raised"}

\* C26: generate_default_config never raises for a topic that is not the
\* empty string, whitespace-only topics included, and returns a
\* configuration with the ten keys in which main_keyword is not empty and
\* the theme depends on the beginner flag alone.
C26_FallbackNeverRaises ==
    (FallbackTaken /\ topic # <<>>) =>
        /\ error = "none"
        /\ HeuristicKeys \subseteq DOMAIN config
        /\ config.main_keyword # <<>>
        /\ config.theme = IF BeginnerFlag(topic)
                           THEN "beginner-friendly transformation"
                           ELSE "science-backed sustainable change"

-----------------------------------------------------------------------------
(* C27: invalid input in the editor *)

\* the number typed at the menu, when it is one
ChoiceOf(t) == IntOf(t.choice)
ChoosesKey(t) ==
    /\ t.confirm
    /\ ParsesAsInt(t.choice)
    /\ ChoiceOf(t) \in 1..Len(Editable)

\* the value typed for chapter_length is no integer
BadLength(t, cfg) ==
    /\ ChoosesKey(t)
    /\ Editable[ChoiceOf(t)] = "chapter_length"
    /\ "chapter_length" \in DOMAIN cfg
    /\ ~ParsesAsInt(UserInput(t.text, StrInt(cfg.chapter_length)))

\* an invalid input: a menu choice that is no number, a number outside
\* 0..10, or a new chapter_length that is no number
InvalidInput(t, cfg) ==
    /\ t.confirm
    /\ \/ ~ParsesAsInt(t.choice)
       \/ ChoiceOf(t) \notin 0..Len(Editable)
       \/ BadLength(t, cfg)

\* the two configurations agree on every key but the given one
SameBut(a, b, key) ==
    /\ DOMAIN a = DOMAIN b
    /\ \A k \in DOMAIN a \ {key} : a[k] = b[k]

\* C27: in edit_config_interactive an invalid input (a menu choice that is
\* no number or lies outside 0..10, a new chapter_length that is no number)
\* leaves every key and value of the configuration unchanged, raises
\* nothing and lets the loop prompt again; an edit of a key changes no
\* other key, and stores the integer typed for chapter_length.
C27_InvalidInputRecoverable ==
    [][/\ InvalidInput(typed', config) =>
              /\ config' = config
              /\ error' = "none"
              /\ cpc' = "editing"
       /\ (ChoosesKey(typed') /\ ~InvalidInput(typed', config)) =>
              /\ SameBut(config', config, Editable[ChoiceOf(typed')])
              /\ (error' = "none"
                   /\ Editable[ChoiceOf(typed')] = "chapter_length") =>
                       /\ cpc' = "editing"
                       /\ config'.chapter_length =
                              IntOf(UserInput(typed'.text,
                                        StrInt(config.chapter_length)))
      ]_vars

\* after an edit that set chapter_length to -5, a value that is no number
\* was typed for it and the loop goes on
C27_Witness ==
    /\ cpc = "editing"
    /\ error = "none"
    /\ BadLength(typed, config)
    /\ config.chapter_length = 0 - 5

-----------------------------------------------------------------------------
(* C28: the backend of the Compiler's streamed sections *)

\* compile_ebook has been called by execute_pipeline
InCompiler == cclient # "idle"

\* C28: when execute_pipeline is given a backend, the streamed sections of
\* the Compiler are generated by that backend; the substitute writes them
\* only when the pipeline itself runs without a backend.
C28_SectionsBySameBackend ==
    InCompiler =>
        /\ client # "none" => SectionClient(cclient) = client
        /\ client = "none" => SectionClient(cclient) = "mock"

=============================================================================
